---- MODULE Spec2Model ----
(***************************************************************************)
(* A state-machine model of the virtual-population PBPK prototype:         *)
(*   prototype/engine.py            data tables, PopulationGenerator       *)
(*   prototype/models/pbpk_model.py PBPKModel, run_population_simulation   *)
(*   prototype/app.py, flask_app.py the population-generation entry points *)
(*                                                                         *)
(* Number representation.  Python floats are modelled by exact fixed-point *)
(* integers:                                                               *)
(*   activity scores        hundredths          (1.0  = ScoreScale)        *)
(*   products of two scores ten-thousandths     (1.0  = ScoreScale^2)      *)
(*   probabilities          numerator / denominator pairs                  *)
(*   weight                 grams, height in millimetres,                  *)
(*   volumes, flows         millilitres, millilitres per hour              *)
(* A value c * sqrt(r) is kept exactly as the record [coef |-> c,          *)
(* rad |-> r] (c in hundredths, r in ten-thousandths), so np.sqrt is never *)
(* rounded: sqrt(r) <= t is decided as r <= t^2.                           *)
(*                                                                         *)
(* numpy's process-global generator (module np.random) is a deterministic  *)
(* state machine, modelled by a linear congruential generator over         *)
(* 0 .. RngMod-1 whose initial state (OS entropy) is arbitrary.            *)
(*                                                                         *)
(* The floats of pbpk_model.py are exact rationals <<numerator,            *)
(* denominator>> in lowest terms; scipy's odeint is one explicit Euler     *)
(* step per grid interval, and np.std keeps the variance under the root.   *)
(* A half-life -ln(2)/slope is kept as the pair (scale, ratio) with        *)
(* slope = -ln(ratio)/scale, so its sign and its value are exact.          *)
(* A stored clearance or activity score is coef * sqrt(rad) with rational  *)
(* coef and rad; the percentages of the safety report are IEEE doubles.    *)
(***************************************************************************)
EXTENDS Integers, Sequences, FiniteSets, TLC

VARIABLES
    data_files,            \* prototype/data: file name -> parsed JSON object
    module_state,          \* engine.py: "unloaded" | "imported" | "import_failed"
    _ALLELE_FREQ_DATA,     \* module global, engine.py:97/101
    _ACTIVITY_SCORE_DATA,  \* module global, engine.py:98/102
    np_random,             \* state of numpy's process-global random generator
    generators,            \* PopulationGenerator objects with their generate() frame
    alleles_drawn,         \* history: per generator, the raw (unsorted) allele draws of
                           \* its last loop iteration
    simulation,            \* the frame of run_population_simulation while it runs
    returned,              \* history: the calls of run_population_simulation that
                           \* returned, each with its arguments and its result
    metrics_call,          \* a call of one PBPKModel method on its own (_ode_system,
                           \* solve, _calculate_pk_metrics): arguments, result
    safety_call,           \* the consumer's side of a simulation: the results stored by
                           \* run_drug_simulation and the call of update_safety_analysis
                           \* on them, or the response of api_run_simulation
    cancel_requested       \* environment: the calls the user asked to cancel while they ran

engine_vars == <<data_files, module_state, _ALLELE_FREQ_DATA, _ACTIVITY_SCORE_DATA,
                 np_random, generators, alleles_drawn>>
simulation_vars == <<simulation, returned>>
analysis_vars == <<metrics_call, safety_call, cancel_requested>>
vars == <<engine_vars, simulation_vars, analysis_vars>>

-----------------------------------------------------------------------------
(* Bounds of the model *)

MaxSubjects == 2
MaxSeed == 1
RngMod == 101
MaxCohort == 3
MaxCalls == 2
MaxPoints == 4
MaxValues == 20
MaxSummary == 5
MaxExtraCurves == 1

(* Fixed-point units *)
ScoreScale == 100
ProbDen == 100

(* The linear congruential step standing for the Mersenne Twister *)
RngA == 37
RngC == 11

GenIds == {1, 2}

-----------------------------------------------------------------------------
(* Python helpers *)

EmptyDict == [k \in {} |-> 0]
None == <<>>

\* d.get(k, default)
dict_get(d, k, default) == IF k \in DOMAIN d THEN d[k] ELSE default

\* the value a failed d[k1][k2] subscript is reported as (KeyError)
KeyError == << <<"KeyError", 0>> >>

\* d[k1][k2]
subscript2(d, k1, k2) ==
    IF k1 \in DOMAIN d
    THEN IF k2 \in DOMAIN d[k1] THEN d[k1][k2] ELSE KeyError
    ELSE KeyError

RECURSIVE SeqSum(_)
SeqSum(s) == IF s = <<>> THEN 0 ELSE Head(s) + SeqSum(Tail(s))

\* list(d.keys()) and [d[k] for k in keys] of an ordered dict kept as <<key, value>> pairs
Keys(items) == [k \in 1..Len(items) |-> items[k][1]]
Values(items) == [k \in 1..Len(items) |-> items[k][2]]
KeySet(items) == {items[k][1] : k \in 1..Len(items)}

Max2(a, b) == IF a >= b THEN a ELSE b
Min2(a, b) == IF a <= b THEN a ELSE b

\* Python's str ordering (code-point lexicographic) on the allele labels in use
SortedLabels == <<"*1", "*17", "*2", "*22", "*3">>
StrRank(a) == CHOOSE k \in 1..Len(SortedLabels) : SortedLabels[k] = a
StrLeq(a, b) == StrRank(a) <= StrRank(b)

\* the pair left in draw order
UnsortedPair(a, b) == <<a, b>>

\* sorted([a, b]) as a tuple
SortedPair(a, b) == IF StrLeq(a, b) THEN <<a, b>> ELSE <<b, a>>

-----------------------------------------------------------------------------
(* Enums, engine.py:77-91 *)

EAST_ASIAN == "East Asian"
EUROPEAN == "European"
AFRICAN == "African"
LATINO == "Latino"
CENTRAL_SOUTH_ASIAN == "Central/South Asian"
Ethnicity == <<EAST_ASIAN, EUROPEAN, AFRICAN, LATINO, CENTRAL_SOUTH_ASIAN>>

POOR == "Poor Metabolizer (PM)"
INTERMEDIATE == "Intermediate Metabolizer (IM)"
NORMAL == "Normal Metabolizer (NM)"
ULTRA_RAPID == "Ultra-rapid Metabolizer (UM)"
MetabolizerStatus == <<POOR, INTERMEDIATE, NORMAL, ULTRA_RAPID>>

Genes == {"CYP2C19", "CYP3A4"}

-----------------------------------------------------------------------------
(* The backing data files.  Their content is external data; the model      *)
(* draws it from a few tables whose per-gene frequencies sum to 1.         *)

ALLELE_FILE == "allele_frequencies.json"
SCORE_FILE == "activity_scores.json"

FreqFull ==
    (EAST_ASIAN :> ("CYP2C19" :> << <<"*1", 60>>, <<"*2", 30>>, <<"*3", 8>>, <<"*17", 2>> >>
                 @@ "CYP3A4" :> << <<"*1", 70>>, <<"*22", 30>> >>))
 @@ (EUROPEAN :> ("CYP2C19" :> << <<"*1", 63>>, <<"*2", 15>>, <<"*17", 22>> >>
               @@ "CYP3A4" :> << <<"*22", 40>>, <<"*1", 60>> >>))
 @@ (AFRICAN :> ("CYP2C19" :> << <<"*17", 25>>, <<"*1", 55>>, <<"*2", 20>> >>
              @@ "CYP3A4" :> << <<"*1", 100>> >>))

\* no "East Asian" entry, and "European" has no CYP3A4 table
FreqPartial ==
    (EUROPEAN :> ("CYP2C19" :> << <<"*2", 50>>, <<"*1", 50>> >>))

ScoresStd ==
    ("CYP2C19" :> ("*1" :> 100 @@ "*2" :> 0 @@ "*3" :> 0 @@ "*17" :> 150))
 @@ ("CYP3A4" :> ("*1" :> 100 @@ "*22" :> 50))

\* scores around the 0.25 boundary; "*3" and the whole of CYP3A4's "*22" row differ
ScoresFine ==
    ("CYP2C19" :> ("*1" :> 25 @@ "*2" :> 0 @@ "*17" :> 26))
 @@ ("CYP3A4" :> ("*1" :> 25 @@ "*22" :> 0))

DataDirs ==
    { EmptyDict,
      (ALLELE_FILE :> ("allele_frequencies" :> FreqFull)),
      (SCORE_FILE :> ("activity_scores" :> ScoresStd)),
      (ALLELE_FILE :> ("allele_frequencies" :> FreqFull))
        @@ (SCORE_FILE :> ("activity_scores" :> ScoresStd)),
      (ALLELE_FILE :> ("allele_frequencies" :> FreqFull))
        @@ (SCORE_FILE :> ("activity_scores" :> ScoresFine)),
      (ALLELE_FILE :> ("allele_frequencies" :> FreqPartial))
        @@ (SCORE_FILE :> ("activity_scores" :> ScoresStd)) }

-----------------------------------------------------------------------------
(* Data loading, engine.py:33-102 *)

\* returns [raised, value]: FileNotFoundError when the file does not exist
load_allele_frequencies ==
    IF ALLELE_FILE \notin DOMAIN data_files
    THEN [raised |-> TRUE, value |-> EmptyDict]
    ELSE [raised |-> FALSE,
          value |-> dict_get(data_files[ALLELE_FILE], "allele_frequencies", EmptyDict)]

load_activity_scores ==
    IF SCORE_FILE \notin DOMAIN data_files
    THEN [raised |-> TRUE, value |-> EmptyDict]
    ELSE [raised |-> FALSE,
          value |-> dict_get(data_files[SCORE_FILE], "activity_scores", EmptyDict)]

\* the try/except at module import: a FileNotFoundError from either load is
\* caught, a warning is printed, and both tables are set to {}
ImportModule ==
    /\ module_state = "unloaded"
    /\ IF load_allele_frequencies.raised \/ load_activity_scores.raised
       THEN /\ _ALLELE_FREQ_DATA' = EmptyDict
            /\ _ACTIVITY_SCORE_DATA' = EmptyDict
       ELSE /\ _ALLELE_FREQ_DATA' = load_allele_frequencies.value
            /\ _ACTIVITY_SCORE_DATA' = load_activity_scores.value
    /\ module_state' = "imported"
    /\ UNCHANGED <<simulation_vars, analysis_vars>>
    /\ UNCHANGED <<data_files, np_random, generators, alleles_drawn>>

\* the lookup without the substitution of the default ethnicity
get_allele_frequencies_no_default(ethnicity, gene) ==
    IF gene \notin DOMAIN dict_get(_ALLELE_FREQ_DATA, ethnicity, EmptyDict)
    THEN << <<"*1", ProbDen>> >>
    ELSE subscript2(_ALLELE_FREQ_DATA, ethnicity, gene)

\* engine.py:105-125
get_allele_frequencies(ethnicity, gene) ==
    LET eth_name == IF ethnicity \notin DOMAIN _ALLELE_FREQ_DATA
                    THEN "East Asian" ELSE ethnicity
    IN IF gene \notin DOMAIN dict_get(_ALLELE_FREQ_DATA, eth_name, EmptyDict)
       THEN << <<"*1", ProbDen>> >>
       ELSE subscript2(_ALLELE_FREQ_DATA, eth_name, gene)

\* the lookup with an unknown allele or gene counted as inactive
get_activity_score_zero_default(gene, allele) ==
    IF gene \notin DOMAIN _ACTIVITY_SCORE_DATA
    THEN 0
    ELSE dict_get(_ACTIVITY_SCORE_DATA[gene], allele, 0)

\* engine.py:128-141
get_activity_score(gene, allele) ==
    IF gene \notin DOMAIN _ACTIVITY_SCORE_DATA
    THEN ScoreScale
    ELSE dict_get(_ACTIVITY_SCORE_DATA[gene], allele, ScoreScale)

-----------------------------------------------------------------------------
(* numpy's global generator.  np.random.seed(s) sets the state from s;     *)
(* every sampling call advances the state once and reads the uniform       *)
(* number U = state / RngMod in [0, 1) from it.                            *)

seed_state(random_seed) == random_seed % RngMod
advance(s) == (RngA * s + RngC) % RngMod

\* the state after k draws
RECURSIVE after(_, _)
after(s, k) == IF k = 0 THEN s ELSE after(advance(s), k - 1)

\* np.random.choice(a, p=p) raises ValueError for an empty a, a negative p,
\* or probabilities that do not sum to 1
choice_raises(nums, den) ==
    \/ Len(nums) = 0
    \/ \E k \in 1..Len(nums) : nums[k] < 0
    \/ SeqSum(nums) # den

\* the index np.random.choice picks for the uniform number u / RngMod:
\* cdf.searchsorted(U, side='right'), counted from 1
choice_index(nums, den, u) ==
    1 + Cardinality({k \in 1..Len(nums) :
                        SeqSum(SubSeq(nums, 1, k)) * RngMod <= u * den})

\* np.random.random() < ratio, ratio in percent
random_below(u, ratio_pct) == u * 100 < ratio_pct * RngMod

\* np.random.randint(low, high): an integer of low .. high-1
randint(low, high, u) == low + (u * (high - low)) \div RngMod

\* standard normal deviates, quantised to a few quantiles
ZTable == <<-4, -1, 0, 1, 4>>
standard_normal(u) == ZTable[1 + (u * Len(ZTable)) \div RngMod]

\* np.random.normal(loc, scale)
normal(loc, scale, u) == loc + scale * standard_normal(u)

\* np.random.lognormal(0, 0.3) = exp(0.3 * z), in hundredths
LogNormalTable == <<30, 74, 100, 135, 332>>
lognormal_0_03(u) == LogNormalTable[1 + (u * Len(LogNormalTable)) \div RngMod]

-----------------------------------------------------------------------------
(* Exact square roots *)

\* np.sqrt(x), x in ten-thousandths
sqrt(x) == [coef |-> ScoreScale, rad |-> x]

\* s <= t for s = coef * sqrt(rad) and a rational t in hundredths
SurdLeq(s, t) == s.coef * s.coef * s.rad <= t * t * ScoreScale * ScoreScale

\* s < t
SurdLt(s, t) == s.coef * s.coef * s.rad < t * t * ScoreScale * ScoreScale

\* k * s for an integer k and a factor f in hundredths
SurdTimes(k, s, f) == [coef |-> (k * s.coef * f) \div ScoreScale, rad |-> s.rad]

\* the integer fourth root, floor(n ^ (1/4))
IRoot4(n) == CHOOSE k \in 0..200 : k * k * k * k <= n /\ n < (k+1) * (k+1) * (k+1) * (k+1)

-----------------------------------------------------------------------------
(* IEEE binary64, for the percentages of calculate_safety_margin.           *)
(* A natural number is its sequence of 15-bit limbs, lowest first, without  *)
(* leading zero limbs.  A dyadic number [m |-> limbs, e |-> exponent] is    *)
(* m * 2^e; a double is a dyadic number whose m has exactly 53 bits, or 0.  *)

LimbBits == 15
Limb == 2^LimbBits
MantissaBits == 53
QuotientBits == 59

RECURSIVE BFromInt(_)
BFromInt(n) == IF n = 0 THEN <<>> ELSE <<n % Limb>> \o BFromInt(n \div Limb)

RECURSIVE BStrip(_)
BStrip(b) == IF b # <<>> /\ b[Len(b)] = 0 THEN BStrip(SubSeq(b, 1, Len(b) - 1)) ELSE b

\* b * k + carry for k <= Limb
RECURSIVE BMulCarry(_, _, _)
BMulCarry(b, k, carry) ==
    IF b = <<>> THEN BFromInt(carry)
    ELSE <<(Head(b) * k + carry) % Limb>> \o BMulCarry(Tail(b), k, (Head(b) * k + carry) \div Limb)
BMulSmall(b, k) == BStrip(BMulCarry(b, k, 0))

RECURSIVE BAddCarry(_, _, _)
BAddCarry(a, b, carry) ==
    IF a = <<>> /\ b = <<>> THEN BFromInt(carry)
    ELSE LET x == IF a = <<>> THEN 0 ELSE Head(a)
             y == IF b = <<>> THEN 0 ELSE Head(b)
         IN <<(x + y + carry) % Limb>>
               \o BAddCarry(IF a = <<>> THEN a ELSE Tail(a),
                            IF b = <<>> THEN b ELSE Tail(b), (x + y + carry) \div Limb)
BAdd(a, b) == BAddCarry(a, b, 0)

\* a - b for a >= b
RECURSIVE BSubBorrow(_, _, _)
BSubBorrow(a, b, borrow) ==
    IF a = <<>> THEN <<>>
    ELSE LET y == (IF b = <<>> THEN 0 ELSE Head(b)) + borrow
         IN <<(Head(a) - y) % Limb>>
               \o BSubBorrow(Tail(a), IF b = <<>> THEN b ELSE Tail(b),
                             IF Head(a) < y THEN 1 ELSE 0)
BSub(a, b) == BStrip(BSubBorrow(a, b, 0))

BLt(a, b) ==
    \/ Len(a) < Len(b)
    \/ /\ Len(a) = Len(b)
       /\ \E k \in 1..Len(a) :
             /\ a[k] < b[k]
             /\ \A j \in (k + 1)..Len(a) : a[j] = b[j]

BitLength(b) ==
    IF b = <<>> THEN 0
    ELSE LimbBits * (Len(b) - 1) + Cardinality({i \in 0..(LimbBits - 1) : 2^i <= b[Len(b)]})

BIsOdd(b) == b # <<>> /\ b[1] % 2 = 1

\* b * 2^s
BShl(b, s) ==
    IF b = <<>> THEN b
    ELSE [k \in 1..(s \div LimbBits) |-> 0] \o BMulSmall(b, 2^(s % LimbBits))

\* floor(b / d) and b mod d for d <= Limb, by long division from the top limb
RECURSIVE BDivRem(_, _, _)
BDivRem(b, d, k) ==
    IF k > Len(b) THEN [q |-> <<>>, r |-> 0]
    ELSE LET up == BDivRem(b, d, k + 1)
             cur == Limb * up.r + b[k]
         IN [q |-> <<cur \div d>> \o up.q, r |-> cur % d]
BDivSmall(b, d) == LET x == BDivRem(b, d, 1) IN [q |-> BStrip(x.q), r |-> x.r]

\* floor(b / 2^s), and whether a non-zero part was dropped
BShr(b, s) ==
    LET whole == Min2(s \div LimbBits, Len(b))
        x == BDivSmall(SubSeq(b, whole + 1, Len(b)), 2^(s % LimbBits))
    IN [q |-> x.q, inexact |-> x.r # 0 \/ \E j \in 1..whole : b[j] # 0]

\* round m * 2^e to nearest, ties to even; sticky says that a non-zero part
\* below the lowest bit of m was already dropped
round_to_nearest_even(m, e, sticky) ==
    LET n == BitLength(m)
        k == n - MantissaBits
    IN IF m = <<>> THEN [m |-> <<>>, e |-> 0]
       ELSE IF k <= 0 THEN [m |-> BShl(m, -k), e |-> e + k]
       ELSE LET y == BShr(m, k - 1)
                kept == BShr(y.q, 1).q
                up == BIsOdd(y.q) /\ (sticky \/ y.inexact \/ BIsOdd(kept))
                r == IF up THEN BAdd(kept, <<1>>) ELSE kept
            IN IF BitLength(r) > MantissaBits THEN [m |-> BShr(r, 1).q, e |-> e + k + 1]
               ELSE [m |-> r, e |-> e + k]

float(n) == round_to_nearest_even(BFromInt(n), 0, FALSE)

\* exact arithmetic and order on dyadic numbers
DAligned(x, e) == BShl(x.m, x.e - e)
DMinExp(x, y) == IF x.m = <<>> THEN y.e ELSE IF y.m = <<>> THEN x.e ELSE Min2(x.e, y.e)
DTimesInt(x, k) == [m |-> BMulSmall(x.m, k), e |-> x.e]
DPlus(x, y) ==
    LET e == DMinExp(x, y) IN [m |-> BAdd(DAligned(x, e), DAligned(y, e)), e |-> e]
DLt(x, y) == LET e == DMinExp(x, y) IN BLt(DAligned(x, e), DAligned(y, e))
DLeq(x, y) == ~DLt(y, x)
DDistance(x, y) ==
    LET e == DMinExp(x, y)
    IN [m |-> IF DLt(x, y) THEN BSub(DAligned(y, e), DAligned(x, e))
                           ELSE BSub(DAligned(x, e), DAligned(y, e)), e |-> e]

\* the float operations: int / int, float * int, float + float
float_divide(n, d) ==
    LET x == BDivSmall(BShl(BFromInt(n), QuotientBits), d)
    IN round_to_nearest_even(x.q, -QuotientBits, x.r # 0)
float_times(x, k) == round_to_nearest_even(BMulSmall(x.m, k), x.e, FALSE)
float_plus(x, y) == LET s == DPlus(x, y) IN round_to_nearest_even(s.m, s.e, FALSE)


\* float / int
float_over_int(x, k) ==
    LET q == BDivSmall(BShl(x.m, QuotientBits), k)
    IN round_to_nearest_even(q.q, x.e - QuotientBits, q.r # 0)

\* np.sqrt of a product of two summed scores, the product in ten-thousandths,
\* for the products that are no perfect squares, up to factors of 4: the
\* correctly rounded double as <<product, mantissa, exponent>>
SqrtTable ==
    << <<650, <<9823, 19280, 17527, 130>>, -54>>,
       <<1250, <<15309, 19710, 633, 181>>, -54>>,
       <<1275, <<26993, 11950, 26888, 182>>, -54>>,
       <<1300, <<24976, 8347, 19799, 184>>, -54>>,
       <<2550, <<12386, 12979, 8967, 129>>, -53>>,
       <<3125, <<29864, 14127, 3550, 143>>, -53>>,
       <<3150, <<22828, 18454, 22270, 143>>, -53>>,
       <<3250, <<3875, 11344, 30882, 145>>, -53>>,
       <<6250, <<23379, 30132, 12640, 202>>, -53>>,
       <<6300, <<30591, 6035, 6347, 203>>, -53>>,
       <<6375, <<32588, 12285, 13094, 204>>, -53>>,
       <<6500, <<17537, 32261, 12903, 206>>, -53>>,
       <<15000, <<8494, 10258, 25144, 156>>, -52>>,
       <<15750, <<1594, 24376, 20929, 160>>, -52>>,
       <<30000, <<19626, 20656, 23019, 221>>, -52>>,
       <<37500, <<20186, 25246, 28538, 247>>, -52>>,
       <<45000, <<27865, 6590, 25051, 135>>, -51>> >>

\* the double np.sqrt returns for a product of x ten-thousandths: exact for a
\* perfect square, the table's entry, or twice the root of x / 4
RECURSIVE float_sqrt(_)
float_sqrt(x) ==
    IF \E r \in 0..Min2(x, 4 * ScoreScale) : r * r = x
    THEN float_divide(CHOOSE r \in 0..Min2(x, 4 * ScoreScale) : r * r = x, ScoreScale)
    ELSE IF \E k \in 1..Len(SqrtTable) : SqrtTable[k][1] = x
    THEN LET row == CHOOSE k \in 1..Len(SqrtTable) : SqrtTable[k][1] = x
         IN [m |-> SqrtTable[row][2], e |-> SqrtTable[row][3]]
    ELSE LET half == float_sqrt(x \div 4) IN [m |-> half.m, e |-> half.e + 1]

\* the float a stored score sqrt(rad) is
float_of_score(s) == float_sqrt(s.rad)

\* np.add.reduce over n < 8 doubles: numpy's pairwise summation adds fewer
\* than eight values from left to right, and the cohorts summarised here stay
\* below eight individuals
RECURSIVE sum_left_to_right(_, _)
sum_left_to_right(a, n) ==
    IF n = 0 THEN [m |-> <<>>, e |-> 0]
    ELSE CHOOSE s \in {float_plus(left, a[n]) : left \in {sum_left_to_right(a, n - 1)}} : TRUE

pairwise_sum(a) == sum_left_to_right(a, Len(a))

\* np.mean of a non-empty list of doubles
mean(a) == CHOOSE m \in {float_over_int(s, Len(a)) : s \in {pairwise_sum(a)}} : TRUE

\* min() and max() of a non-empty list of doubles
min(a) == a[CHOOSE i \in 1..Len(a) : \A j \in 1..Len(a) : DLeq(a[i], a[j])]
max(a) == a[CHOOSE i \in 1..Len(a) : \A j \in 1..Len(a) : DLeq(a[j], a[i])]

-----------------------------------------------------------------------------
(* PopulationGenerator, engine.py:167-436 *)

\* the default of ethnicity_distribution=None, engine.py:203-208
DefaultDistribution ==
    [items |-> << <<EAST_ASIAN, 34>>, <<EUROPEAN, 33>>, <<AFRICAN, 33>> >>, den |-> 100]

\* engine.py:272-276; returns [raised, value]
_sample_ethnicity(self, u) ==
    LET ethnicities == Keys(self.ethnicity_distribution.items)
        probs == Values(self.ethnicity_distribution.items)
        den == self.ethnicity_distribution.den
    IN IF choice_raises(probs, den)
       THEN [raised |-> TRUE, value |-> EAST_ASIAN]
       ELSE [raised |-> FALSE, value |-> ethnicities[choice_index(probs, den, u)]]

\* the samples without np.clip
_sample_anthropometrics_unclamped(self, gender, age, u_weight, u_height) ==
    LET weight_adj == IF gender = "M" THEN 110 ELSE 90
        height_mean == IF gender = "M" THEN 175 ELSE 162
        height_sd == IF gender = "M" THEN 7 ELSE 6
        age_factor == 1000 + 5 * Max2(0, age - 40)
        weight_loc == (self.weight_mean * weight_adj * age_factor) \div 100
        weight == normal(weight_loc, self.weight_sd * 1000, u_weight)
        height == normal(height_mean * 10, height_sd * 10, u_height)
        bmi == (weight * 10000) \div (height * height)
    IN [weight |-> weight, height |-> height, bmi |-> bmi]

\* engine.py:278-309; weight in grams, height in millimetres, bmi in tenths
_sample_anthropometrics(self, gender, age, u_weight, u_height) ==
    LET weight_adj == IF gender = "M" THEN 110 ELSE 90             \* hundredths
        height_mean == IF gender = "M" THEN 175 ELSE 162
        height_sd == IF gender = "M" THEN 7 ELSE 6
        age_factor == 1000 + 5 * Max2(0, age - 40)                      \* thousandths
        weight_loc == (self.weight_mean * weight_adj * age_factor) \div 100
        weight == Max2(40000, Min2(normal(weight_loc, self.weight_sd * 1000, u_weight), 150000))
        height == Max2(1400, Min2(normal(height_mean * 10, height_sd * 10, u_height), 2000))
        bmi == (weight * 10000) \div (height * height)
    IN [weight |-> weight, height |-> height, bmi |-> bmi]

\* engine.py:311-329; returns [raised, drawn, value]
_sample_genotype(gene, ethnicity, u1, u2) ==
    LET allele_freqs == get_allele_frequencies(ethnicity, gene)
        alleles == Keys(allele_freqs)
        probs == Values(allele_freqs)
    IN IF choice_raises(probs, ProbDen)
       THEN [raised |-> TRUE, drawn |-> <<"*1", "*1">>, value |-> <<"*1", "*1">>]
       ELSE LET allele1 == alleles[choice_index(probs, ProbDen, u1)]
                allele2 == alleles[choice_index(probs, ProbDen, u2)]
            IN [raised |-> FALSE, drawn |-> <<allele1, allele2>>,
                value |-> SortedPair(allele1, allele2)]

\* engine.py:331-340
_calculate_activity_score(gene, genotype) ==
    get_activity_score(gene, genotype[1]) + get_activity_score(gene, genotype[2])

\* the classification with every boundary moved to the upper class
_classify_metabolizer_strict(activity_score) ==
    IF SurdLt(activity_score, 25) THEN POOR
    ELSE IF SurdLt(activity_score, 100) THEN INTERMEDIATE
    ELSE IF SurdLt(activity_score, 200) THEN NORMAL
    ELSE ULTRA_RAPID

\* engine.py:342-351; activity_score is np.sqrt(...) kept exactly
_classify_metabolizer(activity_score) ==
    IF SurdLeq(activity_score, 25) THEN POOR
    ELSE IF SurdLeq(activity_score, 100) THEN INTERMEDIATE
    ELSE IF SurdLeq(activity_score, 200) THEN NORMAL
    ELSE ULTRA_RAPID

\* engine.py:353-390; volumes in millilitres, flow in millilitres per hour
_generate_physiological_params(self, weight, age, gender, activity_score, u) ==
    LET weight_ratio == weight \div 700                                 \* hundredths
        v_plasma == (47 * weight) \div 1000
        v_liver == (25 * weight) \div 1000
        age_factor == 1000 - 5 * Max2(0, age - 60)                      \* thousandths
        pow075 == IRoot4(weight_ratio * weight_ratio * weight_ratio * 100)  \* hundredths
        q_liver == (90 * pow075 * age_factor) \div 100
        individual_variability == lognormal_0_03(u)
        cl_int == SurdTimes(self.base_cl_int, activity_score, individual_variability)
    IN [body_weight |-> weight, v_plasma |-> v_plasma, v_liver |-> v_liver,
        q_liver |-> q_liver, cl_int |-> cl_int, cl_renal |-> 0,
        activity_score |-> activity_score]

\* one pass of the loop body of generate(), engine.py:223-268, for loop index i
\* (0-based) from generator state s; returns [raised, rng, drawn, individual]
generate_one(self, i, s) ==
    LET eth == _sample_ethnicity(self, after(s, 1))
        ethnicity == eth.value
        gender == IF random_below(after(s, 2), self.gender_ratio) THEN "M" ELSE "F"
        age == randint(self.age_range[1], self.age_range[2] + 1, after(s, 3))
        anthro == _sample_anthropometrics(self, gender, age, after(s, 4), after(s, 5))
        g1 == _sample_genotype("CYP2C19", ethnicity, after(s, 6), after(s, 7))
        g2 == _sample_genotype("CYP3A4", ethnicity, after(s, 8), after(s, 9))
        cyp2c19_as == _calculate_activity_score("CYP2C19", g1.value)
        cyp3a4_as == _calculate_activity_score("CYP3A4", g2.value)
        combined_as == sqrt(cyp2c19_as * cyp3a4_as)
        metabolizer_status == _classify_metabolizer(combined_as)
        phys_params == _generate_physiological_params(
                           self, anthro.weight, age, gender, combined_as, after(s, 10))
        drawn == ("CYP2C19" :> g1.drawn) @@ ("CYP3A4" :> g2.drawn)
    IN IF eth.raised THEN [raised |-> TRUE, rng |-> s, drawn |-> drawn, individual |-> <<>>]
       ELSE IF g1.raised
       THEN [raised |-> TRUE, rng |-> after(s, 5), drawn |-> drawn, individual |-> <<>>]
       ELSE IF g2.raised
       THEN [raised |-> TRUE, rng |-> after(s, 7), drawn |-> drawn, individual |-> <<>>]
       ELSE [raised |-> FALSE, rng |-> after(s, 10), drawn |-> drawn,
             individual |->
               [subject_id |-> i + 1, age |-> age, gender |-> gender,
                ethnicity |-> ethnicity, weight |-> anthro.weight,
                height |-> anthro.height, bmi |-> anthro.bmi,
                cyp2c19_genotype |-> g1.value, cyp3a4_genotype |-> g2.value,
                cyp2c19_activity_score |-> cyp2c19_as,
                cyp3a4_activity_score |-> cyp3a4_as,
                combined_activity_score |-> combined_as,
                metabolizer_status |-> metabolizer_status,
                phys_params |-> phys_params]]

\* np.mean, min and max of one list of the summary, each computed once
describe(a) ==
    CHOOSE d \in {[mean |-> mean(v), min |-> min(v), max |-> max(v)] : v \in {a}} : TRUE

\* the summary with the ethnicities counted that occur in the cohort only
get_population_summary_present_only(population) ==
    IF Len(population) = 0
    THEN [raised |-> TRUE, value |-> EmptyDict]
    ELSE LET idx == 1..Len(population)
             n_male == Cardinality({k \in idx : population[k].gender = "M"})
             n_female == Len(population) - n_male
             ages == [k \in idx |-> float(population[k].age)]
             weights == [k \in idx |-> float_divide(population[k].weight, 1000)]
             activity_scores ==
                 [k \in idx |-> float_of_score(population[k].combined_activity_score)]
         IN CHOOSE summary \in {[raised |-> FALSE,
             value |->
               [n_subjects |-> Len(population),
                age_mean |-> age.mean, age_min |-> age.min, age_max |-> age.max,
                weight_mean |-> weight.mean,
                weight_min |-> weight.min, weight_max |-> weight.max,
                male |-> n_male, female |-> n_female,
                male_ratio |-> float_divide(n_male, Len(population)),
                ethnicity_distribution |->
                  [e \in {population[k].ethnicity : k \in idx} |->
                     Cardinality({k \in idx : population[k].ethnicity = e})],
                metabolizer_distribution |->
                  [m \in {MetabolizerStatus[k] : k \in 1..Len(MetabolizerStatus)} |->
                     Cardinality({k \in idx : population[k].metabolizer_status = m})],
                activity_score_mean |-> activity_score.mean,
                activity_score_min |-> activity_score.min,
                activity_score_max |-> activity_score.max]] :
                  age \in {describe(ages)}, weight \in {describe(weights)},
                  activity_score \in {describe(activity_scores)}} : TRUE

\* engine.py:392-436; min() of an empty list raises ValueError.  Ages,
\* weights (in kg) and activity scores are the doubles of the program; the
\* four standard deviations (np.std) are left out
get_population_summary(population) ==
    IF Len(population) = 0
    THEN [raised |-> TRUE, value |-> EmptyDict]
    ELSE LET idx == 1..Len(population)
             n_male == Cardinality({k \in idx : population[k].gender = "M"})
             n_female == Len(population) - n_male
             ages == [k \in idx |-> float(population[k].age)]
             weights == [k \in idx |-> float_divide(population[k].weight, 1000)]
             activity_scores ==
                 [k \in idx |-> float_of_score(population[k].combined_activity_score)]
         IN CHOOSE summary \in {[raised |-> FALSE,
             value |->
               [n_subjects |-> Len(population),
                age_mean |-> age.mean, age_min |-> age.min, age_max |-> age.max,
                weight_mean |-> weight.mean,
                weight_min |-> weight.min, weight_max |-> weight.max,
                male |-> n_male, female |-> n_female,
                male_ratio |-> float_divide(n_male, Len(population)),
                ethnicity_distribution |->
                  [e \in {Ethnicity[k] : k \in 1..Len(Ethnicity)} |->
                     Cardinality({k \in idx : population[k].ethnicity = e})],
                metabolizer_distribution |->
                  [m \in {MetabolizerStatus[k] : k \in 1..Len(MetabolizerStatus)} |->
                     Cardinality({k \in idx : population[k].metabolizer_status = m})],
                activity_score_mean |-> activity_score.mean,
                activity_score_min |-> activity_score.min,
                activity_score_max |-> activity_score.max]] :
                  age \in {describe(ages)}, weight \in {describe(weights)},
                  activity_score \in {describe(activity_scores)}} : TRUE

\* a generator slot before PopulationGenerator(...) is called
NoGenerator ==
    [status |-> "absent", via |-> "direct", n_subjects |-> 0,
     ethnicity_distribution |-> DefaultDistribution, age_range |-> <<18, 65>>,
     gender_ratio |-> 50, weight_mean |-> 70, weight_sd |-> 15, base_cl_int |-> 10,
     random_seed |-> <<>>, i |-> 0, population |-> <<>>,
     response |-> [state |-> "none", individuals |-> <<>>, summary |-> EmptyDict]]

\* PopulationGenerator.__init__, engine.py:174-213.  Optional arguments are
\* <<>> for None and <<v>> for a value; gender_ratio is in percent.
__init__(via, n_subjects, ethnicity_distribution, age_range, gender_ratio, weight_mean, weight_sd, base_cl_int, random_seed) ==
    [NoGenerator EXCEPT
        !.status = "constructed", !.via = via, !.n_subjects = n_subjects,
        !.ethnicity_distribution =
            IF ethnicity_distribution = <<>> THEN DefaultDistribution
            ELSE ethnicity_distribution[1],
        !.age_range = age_range, !.gender_ratio = gender_ratio,
        !.weight_mean = weight_mean, !.weight_sd = weight_sd,
        !.base_cl_int = base_cl_int, !.random_seed = random_seed]

\* the arguments a script or test passes to PopulationGenerator directly
Distributions ==
    { [items |-> << <<EAST_ASIAN, 50>>, <<EUROPEAN, 30>>, <<AFRICAN, 20>> >>, den |-> 100],
      [items |-> << <<EAST_ASIAN, 50>>, <<EUROPEAN, 30>>, <<AFRICAN, 20>> >>, den |-> 1],
      [items |-> << <<LATINO, 50>>, <<EAST_ASIAN, 50>> >>, den |-> 100] }
AgeRanges == {<<18, 65>>, <<61, 80>>}
OptionalSeeds == {<<>>} \cup {<<k>> : k \in 0..MaxSeed}
DirectConfigs ==
    [n_subjects : 0..MaxSubjects,
     ethnicity_distribution : {<<>>} \cup {<<d>> : d \in Distributions},
     age_range : AgeRanges,
     random_seed : OptionalSeeds]

\* the form values (Dash) or JSON body (Flask) of a generate-population request
Percentages == {<<50, 30, 20>>, <<1, 1, 1>>, <<0, 0, 0>>}
Requests ==
    [via : {"dash", "flask"}, n_subjects : 0..MaxSubjects, eth : Percentages]

\* a script constructs a generator: np.random.seed(random_seed) when a seed is given
Construct(g, configs) ==
    /\ module_state = "imported"
    /\ generators[g].status = "absent"
    /\ \E c \in configs :
         /\ generators' = [generators EXCEPT ![g] =
                __init__("direct", c.n_subjects, c.ethnicity_distribution, c.age_range,
                         50, 70, 15, 10, c.random_seed)]
         /\ np_random' = IF c.random_seed = <<>> THEN np_random
                         ELSE seed_state(c.random_seed[1])
    /\ UNCHANGED <<simulation_vars, analysis_vars>>
    /\ UNCHANGED <<data_files, module_state, _ALLELE_FREQ_DATA, _ACTIVITY_SCORE_DATA,
                   alleles_drawn>>

\* app.py:551-576 and flask_app.py:71-94: the handler normalises the
\* percentages and constructs the generator with random_seed=None
EntryStart(g, requests) ==
    /\ module_state = "imported"
    /\ generators[g].status = "absent"
    /\ \E r \in requests :
         LET total == r.eth[1] + r.eth[2] + r.eth[3]
             total_eth == IF total = 0 THEN 100 ELSE total
             ethnicity_dist ==
                 [items |-> << <<EAST_ASIAN, r.eth[1]>>, <<EUROPEAN, r.eth[2]>>,
                               <<AFRICAN, r.eth[3]>> >>,
                  den |-> total_eth]
         IN generators' = [generators EXCEPT ![g] =
                [__init__(r.via, r.n_subjects, <<ethnicity_dist>>, <<18, 65>>,
                          50, 70, 15, 10, <<>>)
                 EXCEPT !.response.state = "pending"]]
    /\ UNCHANGED <<simulation_vars, analysis_vars>>
    /\ UNCHANGED <<data_files, module_state, _ALLELE_FREQ_DATA, _ACTIVITY_SCORE_DATA,
                   np_random, alleles_drawn>>

\* generate() is entered: population = [], engine.py:221
GenerateCall(g) ==
    /\ generators[g].status = "constructed"
    /\ generators' = [generators EXCEPT ![g].status = "running",
                                        ![g].i = 0, ![g].population = <<>>]
    /\ UNCHANGED <<simulation_vars, analysis_vars>>
    /\ UNCHANGED <<data_files, module_state, _ALLELE_FREQ_DATA, _ACTIVITY_SCORE_DATA,
                   np_random, alleles_drawn>>

\* a second generate() that seeds the stream again
GenerateCallReseeding(g) ==
    /\ generators[g].status = "returned"
    /\ generators[g].via = "direct"
    /\ generators' = [generators EXCEPT ![g].status = "running",
                                        ![g].i = 0, ![g].population = <<>>]
    /\ np_random' = IF generators[g].random_seed = <<>> THEN np_random
                    ELSE seed_state(generators[g].random_seed[1])
    /\ UNCHANGED <<simulation_vars, analysis_vars>>
    /\ UNCHANGED <<data_files, module_state, _ALLELE_FREQ_DATA, _ACTIVITY_SCORE_DATA,
                   alleles_drawn>>

\* a script calls generate() again on a generator whose generate() returned:
\* population = [] and the loop starts over, engine.py:221-223; the seed is
\* used in __init__ only
GenerateCallAgain(g) ==
    /\ generators[g].status = "returned"
    /\ generators[g].via = "direct"
    /\ generators' = [generators EXCEPT ![g].status = "running",
                                        ![g].i = 0, ![g].population = <<>>]
    /\ UNCHANGED <<simulation_vars, analysis_vars>>
    /\ UNCHANGED <<data_files, module_state, _ALLELE_FREQ_DATA, _ACTIVITY_SCORE_DATA,
                   np_random, alleles_drawn>>

\* one iteration of the loop, engine.py:223-268; a ValueError leaves generate()
GenerateStep(g) ==
    /\ generators[g].status = "running"
    /\ generators[g].i < generators[g].n_subjects
    /\ LET r == generate_one(generators[g], generators[g].i, np_random)
       IN /\ np_random' = r.rng
          /\ IF r.raised
             THEN /\ generators' = [generators EXCEPT ![g].status = "raised"]
                  /\ UNCHANGED alleles_drawn
             ELSE /\ generators' = [generators EXCEPT
                        ![g].population = Append(@, r.individual),
                        ![g].i = @ + 1]
                  /\ alleles_drawn' = [alleles_drawn EXCEPT ![g] = r.drawn]
    /\ UNCHANGED <<simulation_vars, analysis_vars>>
    /\ UNCHANGED <<data_files, module_state, _ALLELE_FREQ_DATA, _ACTIVITY_SCORE_DATA>>

\* the loop leaving one iteration early
GenerateReturnEarly(g) ==
    /\ generators[g].status = "running"
    /\ generators[g].i + 1 >= generators[g].n_subjects
    /\ generators' = [generators EXCEPT ![g].status = "returned"]
    /\ UNCHANGED <<simulation_vars, analysis_vars>>
    /\ UNCHANGED <<data_files, module_state, _ALLELE_FREQ_DATA, _ACTIVITY_SCORE_DATA,
                   np_random, alleles_drawn>>

\* the loop is exhausted: return population, engine.py:270
GenerateReturn(g) ==
    /\ generators[g].status = "running"
    /\ generators[g].i >= generators[g].n_subjects
    /\ generators' = [generators EXCEPT ![g].status = "returned"]
    /\ UNCHANGED <<simulation_vars, analysis_vars>>
    /\ UNCHANGED <<data_files, module_state, _ALLELE_FREQ_DATA, _ACTIVITY_SCORE_DATA,
                   np_random, alleles_drawn>>

\* round(x, n): to the nearest multiple of unit, ties to even
round_to(x, unit) ==
    LET q == x \div unit
        r == x % unit
    IN IF 2 * r < unit THEN q
       ELSE IF 2 * r > unit THEN q + 1
       ELSE IF q % 2 = 0 THEN q ELSE q + 1

\* round(np.sqrt(r), 2) in hundredths: the integer nearest to the root of rad
round_sqrt(s) ==
    CHOOSE k \in 0..400 : /\ k = 0 \/ (2 * k - 1) * (2 * k - 1) <= 4 * s.rad
                          /\ 4 * s.rad < (2 * k + 1) * (2 * k + 1)

metabolizer_map ==
    (POOR :> "PM") @@ (INTERMEDIATE :> "IM") @@ (NORMAL :> "NM") @@ (ULTRA_RAPID :> "UM")

\* the per-individual dict of app.py:591-613 and flask_app.py:109-130
individual_data(ind) ==
    [id |-> ind.subject_id, age |-> ind.age, gender |-> ind.gender,
     weight |-> round_to(ind.weight, 100), height |-> round_to(ind.height, 1),
     bmi |-> round_to(ind.bmi, 1), ethnicity |-> ind.ethnicity,
     metabolizer |-> dict_get(metabolizer_map, ind.metabolizer_status, "NM"),
     activity_score |-> round_sqrt(ind.combined_activity_score),
     cyp2c19 |-> ind.cyp2c19_genotype, cyp3a4 |-> ind.cyp3a4_genotype,
     phys_params |-> ind.phys_params]

\* the rest of the handler after generate(): summary, per-individual data and
\* the response, app.py:579-627 and flask_app.py:97-139.  An exception leaves a
\* Dash callback without output and makes Flask answer success=False, 500.
HandlerFinish(g) ==
    /\ generators[g].via # "direct"
    /\ generators[g].response.state = "pending"
    /\ generators[g].status \in {"returned", "raised"}
    /\ LET pop_summary == get_population_summary(generators[g].population)
       IN IF generators[g].status = "raised" \/ pop_summary.raised
          THEN generators' = [generators EXCEPT ![g].response.state = "error"]
          ELSE generators' = [generators EXCEPT ![g].response =
                   [state |-> "ok",
                    individuals |-> [k \in 1..Len(generators[g].population) |->
                                       individual_data(generators[g].population[k])],
                    summary |-> pop_summary.value]]
    /\ UNCHANGED <<simulation_vars, analysis_vars>>
    /\ UNCHANGED <<data_files, module_state, _ALLELE_FREQ_DATA, _ACTIVITY_SCORE_DATA,
                   np_random, alleles_drawn>>

-----------------------------------------------------------------------------
(* Floats of the simulation, as exact rationals <<numerator, denominator>> *)

Abs(n) == IF n < 0 THEN -n ELSE n

RECURSIVE GCD(_, _)
GCD(a, b) == IF b = 0 THEN a ELSE GCD(b, a % b)

\* n / d in lowest terms, d > 0
Rat(n, d) == LET g == GCD(Abs(n), d) IN <<n \div g, d \div g>>

RZero == <<0, 1>>
RAdd(a, b) ==
    LET l == (a[2] \div GCD(a[2], b[2])) * b[2]
    IN Rat(a[1] * (l \div a[2]) + b[1] * (l \div b[2]), l)
RNeg(a) == <<-a[1], a[2]>>
RSub(a, b) == RAdd(a, RNeg(b))
RMul(a, b) ==
    LET g1 == GCD(Abs(a[1]), b[2])
        g2 == GCD(Abs(b[1]), a[2])
    IN Rat((a[1] \div g1) * (b[1] \div g2), (a[2] \div g2) * (b[2] \div g1))
RInv(a) == IF a[1] > 0 THEN <<a[2], a[1]>> ELSE <<-a[2], -a[1]>>
RDiv(a, b) == RMul(a, RInv(b))
RLt(a, b) == a[1] * b[2] < b[1] * a[2]
RLeq(a, b) == a[1] * b[2] <= b[1] * a[2]
RMax(a, b) == IF RLt(a, b) THEN b ELSE a
RMin(a, b) == IF RLt(b, a) THEN b ELSE a

RECURSIVE RSum(_)
RSum(s) ==
    IF s = <<>> THEN RZero
    ELSE IF Len(s) = 1 THEN s[1]
    ELSE LET half == Len(s) \div 2
         IN RAdd(RSum(SubSeq(s, 1, half)), RSum(SubSeq(s, half + 1, Len(s))))

\* 10 ** x on the exponents the drugs below reach, truncated to two
\* significant digits
Pow10Table ==
    << << <<-3, 10>>, <<1, 2>> >>,      \* 10 ** -0.3 = 0.501
       << <<11, 10>>, <<12, 1>> >> >>   \* 10 ** 1.1  = 12.59
pow10(x) == LET k == CHOOSE k \in 1..Len(Pow10Table) : Pow10Table[k][1] = x
            IN Pow10Table[k][2]

-----------------------------------------------------------------------------
(* numpy / scipy *)

\* np.linspace(0, stop, num, endpoint=False)
linspace_endpoint_excluded(stop, num) == [k \in 1..num |-> RMul(stop, Rat(k - 1, num))]

\* np.linspace(0, stop, num)
linspace(stop, num) ==
    [k \in 1..num |-> IF num = 1 THEN RZero ELSE RMul(stop, Rat(k - 1, num - 1))]

\* np.zeros((rows, cols))
zeros(rows, cols) == [i \in 1..rows |-> [j \in 1..cols |-> RZero]]

\* np.argmax: the first index of the largest element
argmax(a) ==
    CHOOSE k \in 1..Len(a) :
        /\ \A j \in 1..Len(a) : RLeq(a[j], a[k])
        /\ \A j \in 1..(k - 1) : RLt(a[j], a[k])

\* scipy.integrate.trapezoid(y, x)
trapezoid(y, x) ==
    RSum([k \in 1..(Len(x) - 1) |->
            RMul(RSub(x[k + 1], x[k]), RDiv(RAdd(y[k], y[k + 1]), <<2, 1>>))])

column(matrix, j) == [i \in 1..Len(matrix) |-> matrix[i][j]]

\* np.mean(matrix, axis=0)
mean_axis0(matrix, n_points) ==
    [j \in 1..n_points |-> RDiv(RSum(column(matrix, j)), <<Len(matrix), 1>>)]

\* np.std(matrix, axis=0): the square root of the population variance, kept
\* as the exact variance under the root
std_axis0(matrix, n_points) ==
    [j \in 1..n_points |->
        LET col == column(matrix, j)
            m == RDiv(RSum(col), <<Len(col), 1>>)
            sq == [i \in 1..Len(col) |-> RMul(RSub(col[i], m), RSub(col[i], m))]
        IN [sqrt_of |-> RDiv(RSum(sq), <<Len(col), 1>>)]]

percentile_rank_from_one(a1d, q) ==
    LET a == SortSeq(a1d, RLt)
        n == Len(a)
        lo == (q * n) \div 100
        frac == Rat((q * n) % 100, 100)
    IN IF lo + 1 >= n THEN a[n]
       ELSE RAdd(a[lo + 1], RMul(frac, RSub(a[lo + 2], a[lo + 1])))

\* np.percentile(a, q) of a one-dimensional array, linear interpolation
\* between order statistics
percentile(a1d, q) ==
    LET a == SortSeq(a1d, RLt)
        n == Len(a)
        lo == (q * (n - 1)) \div 100
        frac == Rat((q * (n - 1)) % 100, 100)
    IN IF lo + 1 >= n THEN a[n]
       ELSE RAdd(a[lo + 1], RMul(frac, RSub(a[lo + 2], a[lo + 1])))

\* np.percentile(matrix, q, axis=0)
percentile_axis0(matrix, q, n_points) ==
    [j \in 1..n_points |-> percentile(column(matrix, j), q)]

-----------------------------------------------------------------------------
(* PBPKModel *)

\* Liver-plasma partition coefficient from LogP, clamped to [1, 50]
_estimate_kp_liver(drug) ==
    LET kp == RAdd(<<1, 2>>,
                   RMul(RMul(<<1, 2>>,
                             pow10(RSub(RMul(<<7, 10>>, drug.log_p), <<3, 10>>))),
                        drug.f_u))
    IN RMax(<<1, 1>>, RMin(kp, <<50, 1>>))

\* PBPKModel(drug_params, phys_params, sim_config)
PBPKModel(drug_params, phys_params, sim_config) ==
    [drug |-> drug_params, phys |-> phys_params, config |-> sim_config,
     k_p_liver |-> _estimate_kp_liver(drug_params)]

\* an ODE whose hepatic metabolism is saturated: a zero-order rate, the
\* first-order rate at 0.001 mg/L, whatever the liver concentration
_ode_system_saturable(y, params) ==
    LET A_gut == y[1]
        C_plasma == y[2]
        C_liver == y[3]
        dA_gut_dt == RMul(RNeg(params.k_a), A_gut)
        absorption == RDiv(RMul(RMul(params.k_a, A_gut), params.F), params.V_c)
        liver_uptake == RMul(RDiv(params.Q_liver, params.V_c), C_plasma)
        liver_return == RMul(RDiv(params.Q_liver, params.V_c), RDiv(C_liver, params.K_p))
        renal_clearance == RMul(RDiv(params.CL_renal, params.V_c), C_plasma)
        dC_plasma_dt == RSub(RAdd(RSub(absorption, liver_uptake), liver_return),
                             renal_clearance)
        hepatic_uptake == RMul(RDiv(params.Q_liver, params.V_liver), C_plasma)
        hepatic_return == RMul(RDiv(params.Q_liver, params.V_liver),
                               RDiv(C_liver, params.K_p))
        metabolism == IF C_liver = <<0, 1>> THEN <<0, 1>>
                      ELSE RDiv(RDiv(RMul(params.CL_int, params.f_u), params.V_liver),
                                <<1000, 1>>)
        dC_liver_dt == RSub(RSub(hepatic_uptake, hepatic_return), metabolism)
    IN <<dA_gut_dt, dC_plasma_dt, dC_liver_dt>>

\* an ODE whose liver return reaches the plasma scaled by the liver volume
_ode_system_unbalanced(y, params) ==
    LET A_gut == y[1]
        C_plasma == y[2]
        C_liver == y[3]
        dA_gut_dt == RMul(RNeg(params.k_a), A_gut)
        absorption == RDiv(RMul(RMul(params.k_a, A_gut), params.F), params.V_c)
        liver_uptake == RMul(RDiv(params.Q_liver, params.V_c), C_plasma)
        liver_return == RMul(RDiv(params.Q_liver, params.V_liver),
                             RDiv(C_liver, params.K_p))
        renal_clearance == RMul(RDiv(params.CL_renal, params.V_c), C_plasma)
        dC_plasma_dt == RSub(RAdd(RSub(absorption, liver_uptake), liver_return),
                             renal_clearance)
        hepatic_uptake == RMul(RDiv(params.Q_liver, params.V_liver), C_plasma)
        hepatic_return == RMul(RDiv(params.Q_liver, params.V_liver),
                               RDiv(C_liver, params.K_p))
        metabolism == RMul(RDiv(RMul(params.CL_int, params.f_u), params.V_liver), C_liver)
        dC_liver_dt == RSub(RSub(hepatic_uptake, hepatic_return), metabolism)
    IN <<dA_gut_dt, dC_plasma_dt, dC_liver_dt>>

\* the right-hand side of the ODE at state y = <<A_gut, C_plasma, C_liver>>
_ode_system(y, params) ==
    LET A_gut == y[1]
        C_plasma == y[2]
        C_liver == y[3]
        dA_gut_dt == RMul(RNeg(params.k_a), A_gut)
        absorption == RDiv(RMul(RMul(params.k_a, A_gut), params.F), params.V_c)
        liver_uptake == RMul(RDiv(params.Q_liver, params.V_c), C_plasma)
        liver_return == RMul(RDiv(params.Q_liver, params.V_c), RDiv(C_liver, params.K_p))
        renal_clearance == RMul(RDiv(params.CL_renal, params.V_c), C_plasma)
        dC_plasma_dt == RSub(RAdd(RSub(absorption, liver_uptake), liver_return),
                             renal_clearance)
        hepatic_uptake == RMul(RDiv(params.Q_liver, params.V_liver), C_plasma)
        hepatic_return == RMul(RDiv(params.Q_liver, params.V_liver),
                               RDiv(C_liver, params.K_p))
        metabolism == RMul(RDiv(RMul(params.CL_int, params.f_u), params.V_liver), C_liver)
        dC_liver_dt == RSub(RSub(hepatic_uptake, hepatic_return), metabolism)
    IN <<dA_gut_dt, dC_plasma_dt, dC_liver_dt>>

\* scipy.integrate.odeint(self._ode_system, y0, t, args=(params,)): the state
\* at every grid time, one explicit Euler step per grid interval
RECURSIVE odeint(_, _, _)
odeint(y0, t, params) ==
    IF Len(t) <= 1 THEN [k \in 1..Len(t) |-> y0]
    ELSE LET dy == _ode_system(y0, params)
             h == RSub(t[2], t[1])
             y1 == [c \in 1..3 |-> RAdd(y0[c], RMul(h, dy[c]))]
         IN <<y0>> \o odeint(y1, Tail(t), params)

\* a[mask]: the elements of a at the indices where mask is TRUE
RECURSIVE boolean_index(_, _)
boolean_index(a, mask) ==
    IF a = <<>> THEN <<>>
    ELSE (IF Head(mask) THEN <<Head(a)>> ELSE <<>>) \o boolean_index(Tail(a), Tail(mask))

RECURSIVE RPow(_, _)
RPow(a, e) ==
    IF e = 0 THEN <<1, 1>>
    ELSE IF e < 0 THEN RPow(RInv(a), -e)
    ELSE RMul(a, RPow(a, e - 1))

RECURSIVE RProd(_)
RProd(s) == IF s = <<>> THEN <<1, 1>> ELSE RMul(Head(s), RProd(Tail(s)))

RECURSIVE GCDSeq(_)
GCDSeq(s) == IF s = <<>> THEN 0 ELSE GCD(Abs(Head(s)), GCDSeq(Tail(s)))

RECURSIVE LCMDen(_)
LCMDen(s) ==
    IF s = <<>> THEN 1
    ELSE LET l == LCMDen(Tail(s)) IN (Head(s)[2] \div GCD(Head(s)[2], l)) * l

\* np.polyfit(t, np.log(c), 1)[0]: the least-squares slope
\*   sum (t_i - mean t) * ln c_i / sum (t_i - mean t)^2
\* With integers e_i = (t_i - mean t) * d / g the numerator is (g / d) times
\* ln of ratio = prod c_i ^ e_i, so slope = ln(ratio) / scale with
\* scale = d * sum (t_i - mean t)^2 / g > 0.  The 1e-10 added to every sample
\* before the logarithm is below the resolution of the samples and left out.
polyfit_log_slope(t, c) ==
    LET n == Len(t)
        mean_t == RDiv(RSum(t), <<n, 1>>)
        w == [i \in 1..n |-> RSub(t[i], mean_t)]
        d == LCMDen(w)
        z == [i \in 1..n |-> w[i][1] * (d \div w[i][2])]
        g == GCDSeq(z)
        e == [i \in 1..n |-> z[i] \div g]
    IN [ratio |-> RProd([i \in 1..n |-> RPow(c[i], e[i])]),
        scale |-> RMul(Rat(d, g), RSum([i \in 1..n |-> RMul(w[i], w[i])]))]

\* lines 230-247: the terminal half-life, None where the code leaves it NaN;
\* the variant fits a line through two samples already
half_life_two_samples(t, c_plasma, cmax, tmax) ==
    LET terminal_mask == [k \in 1..Len(t) |->
                             RLt(tmax, t[k]) /\ RLt(RMul(<<1, 10>>, cmax), c_plasma[k])]
        t_terminal == boolean_index(t, terminal_mask)
        c_terminal == boolean_index(c_plasma, terminal_mask)
    IN IF Len(t_terminal) >= 2
       THEN LET slope == polyfit_log_slope(t_terminal, c_terminal)
            IN IF RLt(slope.ratio, <<1, 1>>)
               THEN <<[ln2_times |-> slope.scale, over_ln |-> RInv(slope.ratio)]>>
               ELSE None
       ELSE None
half_life(t, c_plasma, cmax, tmax) ==
    LET terminal_mask == [k \in 1..Len(t) |->
                             RLt(tmax, t[k]) /\ RLt(RMul(<<1, 10>>, cmax), c_plasma[k])]
        t_terminal == boolean_index(t, terminal_mask)
        c_terminal == boolean_index(c_plasma, terminal_mask)
    IN IF Len(t_terminal) > 2
       THEN LET slope == polyfit_log_slope(t_terminal, c_terminal)
            IN IF RLt(slope.ratio, <<1, 1>>)
               THEN <<[ln2_times |-> slope.scale, over_ln |-> RInv(slope.ratio)]>>
               ELSE None
       ELSE None

\* Cmax, Tmax, the trapezoidal AUC and the half-life of a plasma curve; a
\* half-life <<h>> stands for ln(2) * h.ln2_times / ln(h.over_ln)
_calculate_pk_metrics(t, c_plasma) ==
    LET cmax_idx == argmax(c_plasma)
        cmax == c_plasma[cmax_idx]
        tmax == t[cmax_idx]
    IN [cmax |-> cmax,
        tmax |-> tmax,
        auc |-> trapezoid(c_plasma, t),
        t_half |-> half_life(t, c_plasma, cmax, tmax)]

\* lines 186-192: the state the integration starts from,
\* <<A_gut, C_plasma, C_liver>>; the variant takes the branches the other way round
initial_conditions_swapped(config, v_central) ==
    IF config.route = "oral"
    THEN <<RZero, RDiv(config.dose, v_central), RZero>>
    ELSE <<config.dose, RZero, RZero>>
initial_conditions(config, v_central) ==
    IF config.route = "oral"
    THEN <<config.dose, RZero, RZero>>
    ELSE <<RZero, RDiv(config.dose, v_central), RZero>>

\* an exact square root of a rational that is a perfect square
ISqrt(n) == CHOOSE k \in 0..n : k * k = n
RSqrt(x) == <<ISqrt(x[1]), ISqrt(x[2])>>

\* the product of two floats a.coef * sqrt(a.rad) and b.coef * sqrt(b.rad)
\* whose radicands multiply to a perfect square
SurdProduct(a, b) == RMul(RMul(a.coef, b.coef), RSqrt(RMul(a.rad, b.rad)))

\* the parameter dictionary with the stored clearance passed on unscaled
ode_parameters_unscaled(self) ==
    [k_a |-> self.drug.k_a,
     F |-> self.drug.f,
     V_c |-> RMul(self.drug.v_d, self.phys.body_weight),
     V_liver |-> self.phys.v_liver,
     Q_liver |-> self.phys.q_liver,
     CL_int |-> RMul(self.phys.cl_int.coef, self.phys.activity_score.coef),
     CL_renal |-> self.phys.cl_renal,
     f_u |-> self.drug.f_u,
     K_p |-> self.k_p_liver]

\* lines 167-184 of solve(): the effective clearance, the central volume
\* and the parameter dictionary of the ODE
ode_parameters(self) ==
    LET effective_cl_int == SurdProduct(self.phys.cl_int, self.phys.activity_score)
        v_central == RMul(self.drug.v_d, self.phys.body_weight)
    IN [k_a |-> self.drug.k_a,
        F |-> self.drug.f,
        V_c |-> v_central,
        V_liver |-> self.phys.v_liver,
        Q_liver |-> self.phys.q_liver,
        CL_int |-> effective_cl_int,
        CL_renal |-> self.phys.cl_renal,
        f_u |-> self.drug.f_u,
        K_p |-> self.k_p_liver]

\* solve() raises ZeroDivisionError when _ode_system divides the Python
\* floats Q_liver, CL_renal or CL_int * f_u by a zero volume (lines 139-149)
solve_raises(self) ==
    LET params == ode_parameters(self)
    IN params.V_c = <<0, 1>> \/ params.V_liver = <<0, 1>>

\* PBPKModel.solve()
solve(self) ==
    LET t == linspace(self.config.t_max, self.config.n_points)
        params == ode_parameters(self)
        y0 == initial_conditions(self.config, params.V_c)
        solution == odeint(y0, t, params)
        c_plasma == [k \in 1..Len(t) |-> RMul(solution[k][2], <<1000, 1>>)]
        c_liver == [k \in 1..Len(t) |-> RMul(solution[k][3], <<1000, 1>>)]
    IN [time |-> t,
        c_plasma |-> c_plasma,
        c_liver |-> c_liver,
        pk_metrics |-> _calculate_pk_metrics(t, c_plasma),
        parameters |-> params]

-----------------------------------------------------------------------------
(* run_population_simulation *)

Drugs ==
    { [name |-> "Hydrophilic", log_p |-> <<0, 1>>, f_u |-> <<1, 2>>, v_d |-> <<1, 1>>,
       k_a |-> <<1, 2>>, f |-> <<1, 1>>],
      [name |-> "Lipophilic", log_p |-> <<2, 1>>, f_u |-> <<1, 4>>, v_d |-> <<1, 1>>,
       k_a |-> <<1, 2>>, f |-> <<1, 2>>] }

PhysParams ==
    { [body_weight |-> <<2, 1>>, v_plasma |-> <<1, 1>>, v_liver |-> <<2, 1>>,
       q_liver |-> <<1, 1>>, cl_int |-> [coef |-> <<1, 2>>, rad |-> <<1, 1>>],
       cl_renal |-> <<0, 1>>, activity_score |-> [coef |-> <<1, 1>>, rad |-> <<1, 1>>]],
      [body_weight |-> <<4, 1>>, v_plasma |-> <<1, 1>>, v_liver |-> <<2, 1>>,
       q_liver |-> <<1, 1>>, cl_int |-> [coef |-> <<1, 2>>, rad |-> <<1, 1>>],
       cl_renal |-> <<1, 1>>, activity_score |-> [coef |-> <<1, 2>>, rad |-> <<1, 1>>]] }

Cohorts == UNION {[1..n -> PhysParams] : n \in 1..MaxCohort}

SimConfigs ==
    { [dose |-> <<1, 125>>, route |-> "oral", t_max |-> <<2, 1>>, n_points |-> 3],
      [dose |-> <<2, 125>>, route |-> "iv", t_max |-> <<3, 1>>, n_points |-> 4] }

NoSimulation == [pc |-> "idle"]
NoCall == [pc |-> "idle"]

\* lines 266-273: the call binds its arguments and allocates the result arrays
SimulationCall ==
    /\ simulation.pc = "idle"
    /\ Len(returned) < MaxCalls
    /\ \E drug_params \in Drugs, population_phys_params \in Cohorts,
          sim_config \in SimConfigs :
          simulation' =
              [pc |-> "loop",
               drug_params |-> drug_params,
               population_phys_params |-> population_phys_params,
               sim_config |-> sim_config,
               n_subjects |-> Len(population_phys_params),
               n_points |-> sim_config.n_points,
               all_c_plasma |-> zeros(Len(population_phys_params), sim_config.n_points),
               all_pk_metrics |-> <<>>,
               time |-> None,
               i |-> 0,
               caller |-> [via |-> "script"]]
    /\ UNCHANGED returned
    /\ UNCHANGED <<engine_vars, analysis_vars>>

\* list.append(m), and a variant that inserts at the front instead
insert_front(list, m) == <<m>> \o list
append(list, m) == Append(list, m)

\* one iteration of the loop that stores the effective clearance back into
\* the caller's phys_params object
SimulationStepWriteBack ==
    /\ simulation.pc = "loop"
    /\ simulation.i < simulation.n_subjects
    /\ LET phys_params == simulation.population_phys_params[simulation.i + 1]
           model == PBPKModel(simulation.drug_params, phys_params, simulation.sim_config)
           result == solve(model)
       IN simulation' =
              [simulation EXCEPT
                  !.time = IF simulation.time = None THEN <<result.time>> ELSE @,
                  !.all_c_plasma[simulation.i + 1] = result.c_plasma,
                  !.all_pk_metrics = append(@, result.pk_metrics),
                  !.population_phys_params[simulation.i + 1].cl_int =
                      [coef |-> result.parameters.CL_int, rad |-> <<1, 1>>],
                  !.i = @ + 1]
    /\ UNCHANGED returned
    /\ UNCHANGED <<engine_vars, analysis_vars>>

\* lines 275-283: one iteration of the loop over the cohort; the variant
\* keeps the previous iteration's phys_params (a stale loop variable)
SimulationStepStale ==
    /\ simulation.pc = "loop"
    /\ simulation.i < simulation.n_subjects
    /\ LET phys_params == simulation.population_phys_params[Max2(simulation.i, 1)]
           model == PBPKModel(simulation.drug_params, phys_params, simulation.sim_config)
           result == solve(model)
       IN simulation' =
              [simulation EXCEPT
                  !.time = IF simulation.time = None THEN <<result.time>> ELSE @,
                  !.all_c_plasma[simulation.i + 1] = result.c_plasma,
                  !.all_pk_metrics = append(@, result.pk_metrics),
                  !.i = @ + 1]
    /\ UNCHANGED returned
    /\ UNCHANGED <<engine_vars, analysis_vars>>

SimulationStep ==
    /\ simulation.pc = "loop"
    /\ simulation.i < simulation.n_subjects
    /\ LET phys_params == simulation.population_phys_params[simulation.i + 1]
           model == PBPKModel(simulation.drug_params, phys_params, simulation.sim_config)
           result == solve(model)
       IN /\ ~solve_raises(model)
          /\ simulation' =
              [simulation EXCEPT
                  !.time = IF simulation.time = None THEN <<result.time>> ELSE @,
                  !.all_c_plasma[simulation.i + 1] = result.c_plasma,
                  !.all_pk_metrics = append(@, result.pk_metrics),
                  !.i = @ + 1]
    /\ UNCHANGED returned
    /\ UNCHANGED <<engine_vars, analysis_vars>>

\* an iteration that catches the exception of solve() and goes on with the
\* next individual
SimulationSkip ==
    /\ simulation.pc = "loop"
    /\ simulation.i < simulation.n_subjects
    /\ LET phys_params == simulation.population_phys_params[simulation.i + 1]
           model == PBPKModel(simulation.drug_params, phys_params, simulation.sim_config)
       IN solve_raises(model)
    /\ simulation' = [simulation EXCEPT !.i = @ + 1]
    /\ UNCHANGED returned
    /\ UNCHANGED <<engine_vars, analysis_vars>>

\* lines 275-283 hold no try: an exception of solve() ends the loop and the
\* call, and reaches the caller; the frame with the curves solved so far is gone
SimulationRaise ==
    /\ simulation.pc = "loop"
    /\ simulation.i < simulation.n_subjects
    /\ LET phys_params == simulation.population_phys_params[simulation.i + 1]
           model == PBPKModel(simulation.drug_params, phys_params, simulation.sim_config)
       IN solve_raises(model)
    /\ simulation' = [pc |-> "raised", error |-> "ZeroDivisionError",
                      caller |-> simulation.caller]
    /\ UNCHANGED returned
    /\ UNCHANGED <<engine_vars, analysis_vars>>

\* the statistics taken as soon as one individual is solved, over the rows
\* filled so far and the rows still zero
SimulationReturnEarly ==
    /\ simulation.pc = "loop"
    /\ simulation.i >= 1
    /\ LET all_c_plasma == simulation.all_c_plasma
           n_points == simulation.n_points
           cmax_values == [k \in 1..Len(simulation.all_pk_metrics) |->
                              simulation.all_pk_metrics[k].cmax]
           auc_values == [k \in 1..Len(simulation.all_pk_metrics) |->
                              simulation.all_pk_metrics[k].auc]
           result == [time |-> simulation.time[1],
                      individual_curves |-> all_c_plasma,
                      mean_concentration |-> mean_axis0(all_c_plasma, n_points),
                      std_concentration |-> std_axis0(all_c_plasma, n_points),
                      ci_lower |-> percentile_axis0(all_c_plasma, 5, n_points),
                      ci_upper |-> percentile_axis0(all_c_plasma, 95, n_points),
                      cmax_distribution |-> cmax_values,
                      auc_distribution |-> auc_values,
                      pk_metrics_list |-> simulation.all_pk_metrics]
       IN returned' = Append(returned,
                             [drug_params |-> simulation.drug_params,
                              population_phys_params |-> simulation.population_phys_params,
                              sim_config |-> simulation.sim_config,
                              caller |-> simulation.caller,
                              result |-> result])
    /\ simulation' = NoSimulation
    /\ UNCHANGED <<engine_vars, analysis_vars>>

\* lines 285-305: the population statistics and the returned dictionary
SimulationReturn ==
    /\ simulation.pc = "loop"
    /\ simulation.i = simulation.n_subjects
    /\ LET all_c_plasma == simulation.all_c_plasma
           n_points == simulation.n_points
           cmax_values == [k \in 1..Len(simulation.all_pk_metrics) |->
                              simulation.all_pk_metrics[k].cmax]
           auc_values == [k \in 1..Len(simulation.all_pk_metrics) |->
                              simulation.all_pk_metrics[k].auc]
           result == [time |-> simulation.time[1],
                      individual_curves |-> all_c_plasma,
                      mean_concentration |-> mean_axis0(all_c_plasma, n_points),
                      std_concentration |-> std_axis0(all_c_plasma, n_points),
                      ci_lower |-> percentile_axis0(all_c_plasma, 5, n_points),
                      ci_upper |-> percentile_axis0(all_c_plasma, 95, n_points),
                      cmax_distribution |-> cmax_values,
                      auc_distribution |-> auc_values,
                      pk_metrics_list |-> simulation.all_pk_metrics]
       IN returned' = Append(returned,
                             [drug_params |-> simulation.drug_params,
                              population_phys_params |-> simulation.population_phys_params,
                              sim_config |-> simulation.sim_config,
                              caller |-> simulation.caller,
                              result |-> result])
    /\ simulation' = NoSimulation
    /\ UNCHANGED <<engine_vars, analysis_vars>>

-----------------------------------------------------------------------------
(* PBPKModel._calculate_pk_metrics called on its own *)

\* concentrations: zero, one below 10 % of the largest, and two above it
Levels == {<<0, 1>>, <<1, 1>>, <<4, 1>>, <<16, 1>>}

\* a grid of n samples one hour apart, or half an hour apart
MetricsCalls ==
    UNION {[pc : {"called"},
            t : {linspace(<<n - 1, 1>>, n), linspace(<<n - 1, 2>>, n)},
            c_plasma : [1..n -> Levels]] : n \in 1..MaxPoints}

CalculatePkMetrics ==
    /\ metrics_call.pc = "called"
    /\ metrics_call' =
          [pc |-> "returned", t |-> metrics_call.t, c_plasma |-> metrics_call.c_plasma,
           result |-> _calculate_pk_metrics(metrics_call.t, metrics_call.c_plasma)]
    /\ UNCHANGED <<engine_vars, simulation_vars, safety_call, cancel_requested>>

-----------------------------------------------------------------------------
(* PopulationGenerator.get_population_summary called on a cohort *)

\* the fields of three individuals generate() returns which the summary
\* reads: *1/*2 with *1/*1, *1/*1 with *1/*1, and *17/*2 with *1/*1
SummaryIndividuals ==
    { [age |-> 30, gender |-> "M", ethnicity |-> EAST_ASIAN, weight |-> 70500,
       combined_activity_score |-> sqrt(100 * 200),
       metabolizer_status |-> _classify_metabolizer(sqrt(100 * 200))],
      [age |-> 45, gender |-> "F", ethnicity |-> EUROPEAN, weight |-> 40000,
       combined_activity_score |-> sqrt(200 * 200),
       metabolizer_status |-> _classify_metabolizer(sqrt(200 * 200))],
      [age |-> 64, gender |-> "M", ethnicity |-> AFRICAN, weight |-> 82300,
       combined_activity_score |-> sqrt(150 * 200),
       metabolizer_status |-> _classify_metabolizer(sqrt(150 * 200))] }

SummaryCalls ==
    UNION {[pc : {"called"}, population : [1..n -> SummaryIndividuals]] :
              n \in 1..MaxSummary}

GetPopulationSummary ==
    /\ metrics_call.pc = "called"
    /\ "population" \in DOMAIN metrics_call
    /\ metrics_call' =
          [pc |-> "returned", population |-> metrics_call.population,
           result |-> get_population_summary(metrics_call.population).value]
    /\ UNCHANGED <<engine_vars, simulation_vars, safety_call, cancel_requested>>

-----------------------------------------------------------------------------
(* PBPKModel._ode_system called on its own, as the integrator calls it *)

\* the states (A_gut, C_plasma, C_liver) the integrator may pass
OdeStates == [1..3 -> {<<0, 1>>, <<1, 2>>, <<3, 1>>}]

\* the dictionary solve() builds (pbpk_model.py:174-184), with and without
\* clearance and with the lowest and a higher partition coefficient
OdeParams ==
    [k_a : {<<1, 1>>, <<3, 2>>}, F : {<<1, 2>>, <<1, 1>>}, V_c : {<<3, 1>>, <<14, 1>>},
     V_liver : {<<3, 2>>}, Q_liver : {<<90, 1>>}, CL_int : {<<0, 1>>, <<10, 1>>},
     CL_renal : {<<0, 1>>, <<1, 1>>}, f_u : {<<1, 10>>}, K_p : {<<1, 1>>, <<2, 1>>}]

OdeCalls == [pc : {"called"}, y : OdeStates, params : OdeParams]

OdeSystem ==
    /\ metrics_call.pc = "called"
    /\ "y" \in DOMAIN metrics_call
    /\ metrics_call' =
          [pc |-> "returned", y |-> metrics_call.y, params |-> metrics_call.params,
           result |-> _ode_system(metrics_call.y, metrics_call.params)]
    /\ UNCHANGED <<engine_vars, simulation_vars, safety_call, cancel_requested>>

-----------------------------------------------------------------------------
(* PBPKModel(...).solve() for one individual at a dose and at twice that dose *)

DoseConfigs ==
    [dose : {<<1, 125>>, <<2, 125>>}, route : {"oral", "iv"},
     t_max : {<<2, 1>>, <<3, 1>>}, n_points : 2..MaxPoints]

DoseCalls ==
    [pc : {"called"}, drug_params : Drugs, phys_params : PhysParams,
     sim_config : DoseConfigs, results : {<<>>}]

\* the k-th model differs from the first only in its dose
dose_multiple(sim_config, k) ==
    [sim_config EXCEPT !.dose = RMul(<<k, 1>>, sim_config.dose)]

SolveDose ==
    /\ metrics_call.pc = "called"
    /\ "results" \in DOMAIN metrics_call
    /\ LET k == Len(metrics_call.results) + 1
           model == PBPKModel(metrics_call.drug_params, metrics_call.phys_params,
                              dose_multiple(metrics_call.sim_config, k))
       IN metrics_call' =
              [metrics_call EXCEPT !.results = Append(@, solve(model)),
                                   !.pc = IF k = 2 THEN "returned" ELSE "called"]
    /\ UNCHANGED <<engine_vars, simulation_vars, safety_call, cancel_requested>>

-----------------------------------------------------------------------------
(* calculate_safety_margin, engine.py:439-464, and its caller               *)
(* update_safety_analysis, app.py:795-816.  Cmax values and thresholds are  *)
(* exact rationals; the two percentages are doubles.                        *)

\* np.float64 division: a zero divisor gives inf or nan, with a warning
true_divide(a, b) ==
    IF b # RZero THEN RDiv(a, b) ELSE IF a = RZero THEN "nan" ELSE "inf"

\* np.max
amax(a) == a[CHOOSE k \in 1..Len(a) : \A j \in 1..Len(a) : RLeq(a[j], a[k])]

calculate_safety_margin_inclusive(cmax_distribution, toxic_threshold) ==
    LET n_total == Len(cmax_distribution)
        n_exceeding == Cardinality({i \in 1..n_total :
                                      RLeq(toxic_threshold, cmax_distribution[i])})
    IN [toxic_threshold |-> toxic_threshold,
        n_total |-> n_total,
        n_exceeding_threshold |-> n_exceeding,
        percentage_exceeding |-> float_times(float_divide(n_exceeding, n_total), 100),
        percentage_safe |-> float_times(float_divide(n_total - n_exceeding, n_total), 100),
        cmax_max |-> amax(cmax_distribution),
        cmax_95th_percentile |-> percentile(cmax_distribution, 95),
        safety_ratio |-> true_divide(toxic_threshold, percentile(cmax_distribution, 95))]

calculate_safety_margin(cmax_distribution, toxic_threshold) ==
    LET n_total == Len(cmax_distribution)
        n_exceeding == Cardinality({i \in 1..n_total :
                                      RLt(toxic_threshold, cmax_distribution[i])})
    IN [toxic_threshold |-> toxic_threshold,
        n_total |-> n_total,
        n_exceeding_threshold |-> n_exceeding,
        percentage_exceeding |-> float_times(float_divide(n_exceeding, n_total), 100),
        percentage_safe |-> float_times(float_divide(n_total - n_exceeding, n_total), 100),
        cmax_max |-> amax(cmax_distribution),
        cmax_95th_percentile |-> percentile(cmax_distribution, 95),
        safety_ratio |-> true_divide(toxic_threshold, percentile(cmax_distribution, 95))]

\* the colour of the safety report, app.py:808-816
alert_color_inclusive(safety) ==
    IF DLeq(float(10), safety.percentage_exceeding) THEN "danger"
    ELSE IF DLeq(float(5), safety.percentage_exceeding) THEN "warning"
    ELSE "success"

alert_color(safety) ==
    IF DLt(float(10), safety.percentage_exceeding) THEN "danger"
    ELSE IF DLt(float(5), safety.percentage_exceeding) THEN "warning"
    ELSE "success"

\* Cmax arrays: every array of up to MaxCohort of the levels 0..3, and for
\* the larger cohorts the arrays of two levels and the arrays of distinct
\* values, in ascending and in descending order
CmaxLevels == {<<0, 1>>, <<1, 1>>, <<2, 1>>, <<3, 1>>}
reversed(a) == [k \in 1..Len(a) |-> a[Len(a) + 1 - k]]
TwoLevels(n, k) == [i \in 1..n |-> IF i <= k THEN <<1, 1>> ELSE <<3, 1>>]
Ramp(n) == [i \in 1..n |-> <<i, 1>>]
CmaxDistributions ==
    UNION {[1..n -> CmaxLevels] : n \in 1..MaxCohort}
      \cup UNION {{TwoLevels(nk[1], nk[2]), reversed(TwoLevels(nk[1], nk[2]))} :
                      nk \in {x \in (1..MaxValues) \X (0..MaxValues) : x[2] <= x[1]}}
      \cup UNION {{Ramp(n), reversed(Ramp(n))} : n \in 1..MaxValues}

\* the threshold input, among them the 95th percentile of the array itself
Thresholds(cmax_distribution) ==
    {<<2, 1>>, <<5, 2>>, percentile(cmax_distribution, 95)}

SafetyCalls ==
    {[pc |-> "called", results |-> None, toxic_threshold |-> <<2, 1>>]}
      \cup UNION {[pc : {"called"}, results : {[cmax_distribution |-> d]},
                   toxic_threshold : Thresholds(d)] : d \in CmaxDistributions}

UpdateSafetyAnalysis ==
    /\ safety_call.pc = "called"
    /\ IF safety_call.results = None
       THEN safety_call' = [safety_call EXCEPT !.pc = "returned"] @@ [report |-> "waiting"]
       ELSE LET cmax_dist == safety_call.results.cmax_distribution
                safety == calculate_safety_margin(cmax_dist, safety_call.toxic_threshold)
            IN safety_call' = [safety_call EXCEPT !.pc = "returned"]
                                @@ [safety |-> safety, alert_color |-> alert_color(safety)]
    /\ UNCHANGED <<engine_vars, simulation_vars, metrics_call, cancel_requested>>

-----------------------------------------------------------------------------
(* The dashboard pipeline, app.py:644-708: run_drug_simulation takes the    *)
(* stored population, runs run_population_simulation on it and stores the   *)
(* results, which update_safety_analysis then reads.                        *)

\* the stored dict read with the display rounding of the activity score
\* (two decimals) applied to it
PhysiologicalParameters_rounded(phys) ==
    LET cl_int == dict_get(phys, "cl_int",
                           [coef |-> 10 * ScoreScale, rad |-> ScoreScale * ScoreScale])
        activity_score == dict_get(phys, "activity_score",
                                   [coef |-> ScoreScale, rad |-> ScoreScale * ScoreScale])
    IN [body_weight |-> Rat(dict_get(phys, "body_weight", 70000), 1000),
        v_plasma |-> Rat(dict_get(phys, "v_plasma", 3000), 1000),
        v_liver |-> Rat(dict_get(phys, "v_liver", 1500), 1000),
        q_liver |-> Rat(dict_get(phys, "q_liver", 90000), 1000),
        cl_int |-> [coef |-> Rat(cl_int.coef, ScoreScale),
                    rad |-> Rat(cl_int.rad, ScoreScale * ScoreScale)],
        cl_renal |-> Rat(dict_get(phys, "cl_renal", 0), 1000),
        activity_score |->
            [coef |-> Rat((activity_score.coef * round_sqrt(activity_score)) \div ScoreScale,
                          ScoreScale),
             rad |-> <<1, 1>>]]

\* app.py:675-686 and flask_app.py:167-178: a PhysiologicalParameters object
\* from a stored dict, each field phys.get(key, default).  The generator's
\* grams, millilitres and hundredths become kg, L, L/h and 1; the defaults
\* 70, 3.0, 1.5, 90, 10, 0 and 1.0 are written in the units of the stored dict.
PhysiologicalParameters(phys) ==
    LET cl_int == dict_get(phys, "cl_int",
                           [coef |-> 10 * ScoreScale, rad |-> ScoreScale * ScoreScale])
        activity_score == dict_get(phys, "activity_score",
                                   [coef |-> ScoreScale, rad |-> ScoreScale * ScoreScale])
    IN [body_weight |-> Rat(dict_get(phys, "body_weight", 70000), 1000),
        v_plasma |-> Rat(dict_get(phys, "v_plasma", 3000), 1000),
        v_liver |-> Rat(dict_get(phys, "v_liver", 1500), 1000),
        q_liver |-> Rat(dict_get(phys, "q_liver", 90000), 1000),
        cl_int |-> [coef |-> Rat(cl_int.coef, ScoreScale),
                    rad |-> Rat(cl_int.rad, ScoreScale * ScoreScale)],
        cl_renal |-> Rat(dict_get(phys, "cl_renal", 0), 1000),
        activity_score |-> [coef |-> Rat(activity_score.coef, ScoreScale),
                            rad |-> Rat(activity_score.rad, ScoreScale * ScoreScale)]]

\* app.py:667-672: route "oral" always; the grid is cut down to two points
PipelineSimConfigs ==
    { [dose |-> <<1, 125>>, route |-> "oral", t_max |-> <<2, 1>>, n_points |-> 2] }

PipelineRequests == {r \in Requests : r.via = "dash" /\ r.eth = <<50, 30, 20>>}

\* app.py:675-689 and flask_app.py:165-181: the cohort is rebuilt from the
\* stored individuals and run_population_simulation is entered (its lines
\* 266-273)
enter_simulation(caller, drug_params, individuals, sim_config) ==
    LET population_phys ==
            [k \in 1..Len(individuals) |->
                PhysiologicalParameters(dict_get(individuals[k], "phys_params", EmptyDict))]
    IN [pc |-> "loop",
        drug_params |-> drug_params,
        population_phys_params |-> population_phys,
        sim_config |-> sim_config,
        n_subjects |-> Len(population_phys),
        n_points |-> sim_config.n_points,
        all_c_plasma |-> zeros(Len(population_phys), sim_config.n_points),
        all_pk_metrics |-> <<>>,
        time |-> None,
        i |-> 0,
        caller |-> caller]

\* app.py:644-689: without a stored population the callback stores no results
\* and shows an alert; otherwise it builds the arguments and enters
\* run_population_simulation.  The store of the results is the input of
\* update_safety_analysis.
run_drug_simulation(population_data, drug_params, sim_config) ==
    IF population_data = None
    THEN /\ safety_call' = [pc |-> "called", results |-> None, status |-> "warning",
                            toxic_threshold |-> <<2, 1>>]
         /\ UNCHANGED simulation
    ELSE LET individuals == dict_get(population_data, "individuals", <<>>)
             pop_summary == dict_get(population_data, "summary", EmptyDict)
         IN IF individuals = <<>>
            THEN /\ safety_call' = [pc |-> "called", results |-> None, status |-> "danger",
                                    toxic_threshold |-> <<2, 1>>]
                 /\ UNCHANGED simulation
            ELSE /\ simulation' =
                       enter_simulation([via |-> "dash", pop_summary |-> pop_summary,
                                         individuals |-> individuals],
                                        drug_params, individuals, sim_config)
                 /\ UNCHANGED safety_call

\* a button enabled from the start
run_simulation_never_disabled(g) == FALSE

\* app.py:290 and 627: the run-simulation button is disabled until
\* generate_population has returned its three outputs
run_simulation_disabled(g) == generators[g].response.state # "ok"

\* the callback reached while the button is still disabled, by a request that
\* does not come from the button: the store is None as the page holds it, or
\* holds no individuals
RunDrugSimulationDisabled(g) ==
    /\ run_simulation_disabled(g)
    /\ simulation.pc = "idle"
    /\ returned = <<>>
    /\ safety_call.pc = "idle"
    /\ \E population_data \in {None, [individuals |-> <<>>, summary |-> EmptyDict]},
          drug_params \in Drugs, sim_config \in PipelineSimConfigs :
          run_drug_simulation(population_data, drug_params, sim_config)
    /\ UNCHANGED returned
    /\ UNCHANGED <<engine_vars, metrics_call, cancel_requested>>

\* the user clicks the enabled button: the callback runs on the stored population
RunDrugSimulation(g) ==
    /\ generators[g].via = "dash"
    /\ ~run_simulation_disabled(g)
    /\ simulation.pc = "idle"
    /\ returned = <<>>
    /\ safety_call.pc = "idle"
    /\ \E drug_params \in Drugs, sim_config \in PipelineSimConfigs :
          run_drug_simulation([individuals |-> generators[g].response.individuals,
                               summary |-> generators[g].response.summary],
                              drug_params, sim_config)
    /\ UNCHANGED returned
    /\ UNCHANGED <<engine_vars, metrics_call, cancel_requested>>

\* a[:n]
slice_to(a, n) == SubSeq(a, 1, Min2(n, Len(a)))

\* a[-n:]
slice_from_end(a, n) == SubSeq(a, Len(a) - Min2(n, Len(a)) + 1, Len(a))

\* app.py:697 and flask_app.py:189: the number of individual curves passed on
CurveLimit == 50

\* the dictionary with the last CurveLimit curves
consumer_results_last_curves(sim_results) ==
    [time |-> sim_results.time,
     mean_concentration |-> sim_results.mean_concentration,
     ci_lower |-> sim_results.ci_lower,
     ci_upper |-> sim_results.ci_upper,
     individual_curves |-> slice_from_end(sim_results.individual_curves, CurveLimit),
     cmax_distribution |-> sim_results.cmax_distribution,
     auc_distribution |-> sim_results.auc_distribution]

\* app.py:693-699 and flask_app.py:185-191: the part of the results both
\* consumers receive
consumer_results(sim_results) ==
    [time |-> sim_results.time,
     mean_concentration |-> sim_results.mean_concentration,
     ci_lower |-> sim_results.ci_lower,
     ci_upper |-> sim_results.ci_upper,
     individual_curves |-> slice_to(sim_results.individual_curves, CurveLimit),
     cmax_distribution |-> sim_results.cmax_distribution,
     auc_distribution |-> sim_results.auc_distribution]

\* app.py:692-708 and 789-795: the results are stored with the summary read
\* at the start of the callback, and the store triggers
\* update_safety_analysis with the threshold of the input field
StoreSimulationResults ==
    /\ simulation.pc = "idle"
    /\ Len(returned) = 1
    /\ returned[1].caller.via = "dash"
    /\ safety_call.pc = "idle"
    /\ \E toxic_threshold \in Thresholds(returned[1].result.cmax_distribution) :
          safety_call' =
              [pc |-> "called",
               results |-> consumer_results(returned[1].result)
                             @@ [pop_summary |-> returned[1].caller.pop_summary],
               status |-> "success",
               toxic_threshold |-> toxic_threshold]
    /\ UNCHANGED <<engine_vars, simulation_vars, metrics_call, cancel_requested>>

-----------------------------------------------------------------------------
(* The handlers called with a stored population of any content: the Dash    *)
(* callback run_drug_simulation on the content of its store, and Flask's    *)
(* api_run_simulation, flask_app.py:142-195, on the JSON body of a request. *)

\* stored individuals: two as generate_population stores them, one without
\* phys_params, one with two keys only, and one whose body weight is 0
StoredIndividuals ==
    << [id |-> 1, phys_params |->
          [body_weight |-> 80000, v_plasma |-> 3440, v_liver |-> 2000, q_liver |-> 99000,
           cl_int |-> [coef |-> 1000, rad |-> 20000], cl_renal |-> 0,
           activity_score |-> [coef |-> 100, rad |-> 20000]]],
       [id |-> 2, phys_params |->
          [body_weight |-> 40000, v_plasma |-> 1720, v_liver |-> 1000, q_liver |-> 59000,
           cl_int |-> [coef |-> 1350, rad |-> 40000], cl_renal |-> 0,
           activity_score |-> [coef |-> 100, rad |-> 40000]]],
       [id |-> 3],
       [id |-> 4, phys_params |->
          [body_weight |-> 50000, activity_score |-> [coef |-> 100, rad |-> 22500]]],
       [id |-> 5, phys_params |->
          [body_weight |-> 0, v_plasma |-> 0, v_liver |-> 0, q_liver |-> 0,
           cl_int |-> [coef |-> 1000, rad |-> 10000], cl_renal |-> 0,
           activity_score |-> [coef |-> 100, rad |-> 10000]]] >>

\* the cohort sizes around the limit of the curves passed on
CohortSizes == {1, 2, CurveLimit - 1, CurveLimit} \cup
               {CurveLimit + k : k \in 1..MaxExtraCurves}

\* n individuals, the first four stored individuals in turn
stored_cohort(n) == [k \in 1..n |-> StoredIndividuals[((k - 1) % 4) + 1]]

\* short cohorts of every stored individual, and long cohorts
StoredPopulations ==
    {<<>>}
      \cup UNION {[1..n -> {StoredIndividuals[k] : k \in 1..Len(StoredIndividuals)}] :
                     n \in 1..2}
      \cup {stored_cohort(n) : n \in CohortSizes}

\* the content of the store population-individuals
StoredPopulationData ==
    {None} \cup {[individuals |-> p, summary |-> [n_subjects |-> Len(p)]] :
                    p \in StoredPopulations}

\* run_drug_simulation called on any content of the store
RunDrugSimulationStored ==
    /\ simulation.pc = "idle"
    /\ returned = <<>>
    /\ safety_call.pc = "idle"
    /\ \E population_data \in StoredPopulationData, drug_params \in Drugs,
          sim_config \in PipelineSimConfigs :
          run_drug_simulation(population_data, drug_params, sim_config)
    /\ UNCHANGED returned
    /\ UNCHANGED <<engine_vars, metrics_call, cancel_requested>>

\* the JSON bodies of /api/run-simulation: with or without a population
ApiRequests ==
    [drug : Drugs, dose : {<<1, 125>>}]
      \cup [drug : Drugs, dose : {<<1, 125>>}, population : StoredPopulations]

\* flask_app.py:145-181: the arguments are built and run_population_simulation
\* is entered; a missing key raises KeyError, and an empty population ends in
\* an exception after the loop (time is None): both are answered by line 195
api_run_simulation(data) ==
    IF "population" \notin DOMAIN data \/ dict_get(data, "population", <<>>) = <<>>
    THEN /\ safety_call' = [pc |-> "responded", code |-> 500,
                            response |-> [success |-> FALSE]]
         /\ UNCHANGED simulation
    ELSE /\ simulation' =
               enter_simulation([via |-> "flask", individuals |-> data.population],
                                data.drug, data.population,
                                [dose |-> data.dose, route |-> "oral",
                                 t_max |-> <<2, 1>>, n_points |-> 2])
         /\ UNCHANGED safety_call

\* a request to /api/run-simulation with any JSON body
ApiRunSimulation ==
    /\ simulation.pc = "idle"
    /\ returned = <<>>
    /\ safety_call.pc = "idle"
    /\ \E data \in ApiRequests : api_run_simulation(data)
    /\ UNCHANGED returned
    /\ UNCHANGED <<engine_vars, metrics_call, cancel_requested>>

\* the client of /api/generate-population posts the individuals it received
ApiRunSimulationGenerated(g) ==
    /\ generators[g].via = "flask"
    /\ generators[g].response.state = "ok"
    /\ simulation.pc = "idle"
    /\ returned = <<>>
    /\ safety_call.pc = "idle"
    /\ \E drug_params \in Drugs :
          api_run_simulation([drug |-> drug_params, dose |-> <<1, 125>>,
                              population |-> generators[g].response.individuals])
    /\ UNCHANGED returned
    /\ UNCHANGED <<engine_vars, metrics_call, cancel_requested>>

\* flask_app.py:183-192: the JSON answer to a run that returned
ApiRunSimulationRespond ==
    /\ simulation.pc = "idle"
    /\ Len(returned) = 1
    /\ returned[1].caller.via = "flask"
    /\ safety_call.pc = "idle"
    /\ safety_call' = [pc |-> "responded", code |-> 200,
                       response |-> [success |-> TRUE]
                                      @@ consumer_results(returned[1].result)]
    /\ UNCHANGED <<engine_vars, simulation_vars, metrics_call, cancel_requested>>

\* flask_app.py:194-195: the exception of a run that raised is caught by the
\* handler and answered with success = False and status 500
ApiRunSimulationError ==
    /\ simulation.pc = "raised"
    /\ simulation.caller.via = "flask"
    /\ safety_call.pc = "idle"
    /\ safety_call' = [pc |-> "responded", code |-> 500,
                       response |-> [success |-> FALSE, error |-> simulation.error]]
    /\ simulation' = NoSimulation
    /\ UNCHANGED returned
    /\ UNCHANGED <<engine_vars, metrics_call, cancel_requested>>

-----------------------------------------------------------------------------
(* The environment of a running simulation: the user asks to cancel it.     *)
(* cancel_requested holds the numbers of the calls that were running when   *)
(* a cancellation was requested.                                            *)

RequestCancel ==
    /\ simulation.pc = "loop"
    /\ Len(returned) + 1 \notin cancel_requested
    /\ cancel_requested' = cancel_requested \cup {Len(returned) + 1}
    /\ UNCHANGED <<engine_vars, simulation_vars, metrics_call, safety_call>>

-----------------------------------------------------------------------------
(* Specifications *)

InitEngine ==
    /\ data_files \in DataDirs
    /\ module_state = "unloaded"
    /\ _ALLELE_FREQ_DATA = EmptyDict
    /\ _ACTIVITY_SCORE_DATA = EmptyDict
    /\ np_random \in 0..(RngMod - 1)
    /\ generators = [g \in GenIds |-> NoGenerator]
    /\ alleles_drawn = [g \in GenIds |->
                            ("CYP2C19" :> <<"*1", "*1">>) @@ ("CYP3A4" :> <<"*1", "*1">>)]

\* both data files present, and one fixed state of the random generator
InitEngineComplete ==
    /\ InitEngine
    /\ data_files = (ALLELE_FILE :> ("allele_frequencies" :> FreqFull))
                      @@ (SCORE_FILE :> ("activity_scores" :> ScoresStd))
    /\ np_random = 0

InitSimulationIdle ==
    /\ simulation = NoSimulation
    /\ returned = <<>>
    /\ cancel_requested = {}

Init ==
    /\ InitEngine
    /\ InitSimulationIdle
    /\ metrics_call = NoCall
    /\ safety_call = NoCall

\* one process: the module is imported, then one generator is used, either
\* directly or by a request handler
Next ==
    \/ ImportModule
    \/ Construct(1, DirectConfigs)
    \/ EntryStart(1, Requests)
    \/ GenerateCall(1)
    \/ GenerateStep(1)
    \/ GenerateReturn(1)
    \/ HandlerFinish(1)

Spec == Init /\ [][Next]_vars

\* a script that constructs one generator and calls generate() repeatedly,
\* on the complete data files and from any state of the random stream
InitStream ==
    /\ Init
    /\ data_files = (ALLELE_FILE :> ("allele_frequencies" :> FreqFull))
                      @@ (SCORE_FILE :> ("activity_scores" :> ScoresStd))

NextStream ==
    \/ ImportModule
    \/ Construct(1, DirectConfigs)
    \/ GenerateCall(1)
    \/ GenerateStep(1)
    \/ GenerateReturn(1)
    \/ GenerateCallAgain(1)

SpecStream == InitStream /\ [][NextStream]_vars

\* several generators in one process (threads of the web server, or a script
\* holding two generators), all on the complete data files
ConcurrentConfigs ==
    [n_subjects : 1..MaxSubjects, ethnicity_distribution : {<<>>},
     age_range : {<<18, 65>>}, random_seed : OptionalSeeds]

InitConcurrent ==
    /\ Init
    /\ data_files = (ALLELE_FILE :> ("allele_frequencies" :> FreqFull))
                      @@ (SCORE_FILE :> ("activity_scores" :> ScoresStd))

NextConcurrent ==
    \/ ImportModule
    \/ \E g \in GenIds :
          \/ Construct(g, ConcurrentConfigs)
          \/ GenerateCall(g)
          \/ GenerateStep(g)
          \/ GenerateReturn(g)

SpecConcurrent == InitConcurrent /\ [][NextConcurrent]_vars

\* a script or a request handler calling run_population_simulation, one call
\* after the other
InitSimulation ==
    /\ InitConcurrent
    /\ np_random = 0

NextSimulation ==
    \/ SimulationCall
    \/ SimulationStep
    \/ SimulationReturn

SpecSimulation == InitSimulation /\ [][NextSimulation]_vars

\* _calculate_pk_metrics applied to a time grid and a plasma curve
InitMetrics ==
    /\ InitEngineComplete
    /\ InitSimulationIdle
    /\ safety_call = NoCall
    /\ metrics_call \in MetricsCalls

NextMetrics == CalculatePkMetrics

SpecMetrics == InitMetrics /\ [][NextMetrics]_vars

\* get_population_summary applied to a cohort
InitSummary ==
    /\ InitEngineComplete
    /\ InitSimulationIdle
    /\ safety_call = NoCall
    /\ metrics_call \in SummaryCalls

NextSummary == GetPopulationSummary

SpecSummary == InitSummary /\ [][NextSummary]_vars

\* _ode_system applied to one state and one parameter dictionary
InitOde ==
    /\ InitEngineComplete
    /\ InitSimulationIdle
    /\ safety_call = NoCall
    /\ metrics_call \in OdeCalls

NextOde == OdeSystem

SpecOde == InitOde /\ [][NextOde]_vars

\* one individual solved at a dose and then at twice the dose
InitDose ==
    /\ InitEngineComplete
    /\ InitSimulationIdle
    /\ safety_call = NoCall
    /\ metrics_call \in DoseCalls

NextDose == SolveDose

SpecDose == InitDose /\ [][NextDose]_vars

\* the safety report of the dashboard, computed for one stored result
InitSafety ==
    /\ InitEngineComplete
    /\ InitSimulationIdle
    /\ metrics_call = NoCall
    /\ safety_call \in SafetyCalls

NextSafety == UpdateSafetyAnalysis

SpecSafety == InitSafety /\ [][NextSafety]_vars

\* the dashboard: generate a population, simulate it, analyse its safety
\* the generator states from which the handler's first MaxSubjects
\* individuals weigh whole kilograms: their curves and statistics stay
\* within the integers of the model checker
WholeKilograms(s) ==
    \A j \in 0..(MaxSubjects - 1) :
        LET self == __init__("dash", MaxSubjects, <<>>, <<18, 65>>, 50, 70, 15, 10, <<>>)
            r == generate_one(self, j, after(s, 10 * j))
        IN ~r.raised /\ r.individual.weight % 1000 = 0

InitPipeline ==
    /\ InitConcurrent
    /\ WholeKilograms(np_random)

NextPipeline ==
    \/ ImportModule
    \/ EntryStart(1, PipelineRequests)
    \/ GenerateCall(1)
    \/ GenerateStep(1)
    \/ GenerateReturn(1)
    \/ HandlerFinish(1)
    \/ RunDrugSimulation(1)
    \/ SimulationStep
    \/ SimulationReturn
    \/ StoreSimulationResults
    \/ UpdateSafetyAnalysis

SpecPipeline == InitPipeline /\ [][NextPipeline]_vars

\* the dashboard with its simulation callback also reached while the button
\* is disabled
NextWorkflow ==
    \/ ImportModule
    \/ EntryStart(1, PipelineRequests)
    \/ GenerateCall(1)
    \/ GenerateStep(1)
    \/ GenerateReturn(1)
    \/ HandlerFinish(1)
    \/ RunDrugSimulationDisabled(1)
    \/ RunDrugSimulation(1)
    \/ SimulationStep
    \/ SimulationReturn
    \/ StoreSimulationResults
    \/ UpdateSafetyAnalysis

SpecWorkflow == InitPipeline /\ [][NextWorkflow]_vars

\* the hand-over of a cohort to run_population_simulation: a population
\* generated through Dash or Flask and handed on by the same layer, or, before
\* any generation, a stored population of any content; one request is handled
\* at a time, and the run itself is left out
HandoverRequests == {r \in Requests : r.eth = <<50, 30, 20>>}

NextHandover ==
    \/ (simulation.pc = "idle" /\ safety_call.pc = "idle" /\ ImportModule)
    \/ EntryStart(1, HandoverRequests)
    \/ GenerateCall(1)
    \/ GenerateStep(1)
    \/ GenerateReturn(1)
    \/ HandlerFinish(1)
    \/ RunDrugSimulation(1)
    \/ ApiRunSimulationGenerated(1)
    \/ (module_state = "unloaded" /\ RunDrugSimulationStored)
    \/ (module_state = "unloaded" /\ ApiRunSimulation)

SpecHandover == InitConcurrent /\ [][NextHandover]_vars

\* the two handlers of a simulation request, each on any stored population
InitConsumer ==
    /\ InitSimulation
    /\ metrics_call = NoCall

NextConsumer ==
    \/ RunDrugSimulationStored
    \/ ApiRunSimulation
    \/ SimulationStep
    \/ SimulationRaise
    \/ SimulationReturn
    \/ StoreSimulationResults
    \/ ApiRunSimulationRespond
    \/ ApiRunSimulationError
    \/ UpdateSafetyAnalysis

SpecConsumer == InitConsumer /\ [][NextConsumer]_vars

\* run_population_simulation while the user may ask to cancel it
NextCancellation ==
    \/ SimulationCall
    \/ SimulationStep
    \/ SimulationReturn
    \/ RequestCancel

SpecCancellation == InitSimulation /\ [][NextCancellation]_vars

-----------------------------------------------------------------------------
(* Properties *)

\* every individual a generator holds, with the generator that made it
Individuals ==
    {gk \in GenIds \X (1..MaxSubjects) : gk[2] <= Len(generators[gk[1]].population)}
Ind(gk) == generators[gk[1]].population[gk[2]]

\* a configuration generate() is specified for: the ethnicity proportions are
\* probabilities, and so is every allele table the loaded data can supply
ValidConfiguration(self) ==
    /\ ~choice_raises(Values(self.ethnicity_distribution.items),
                      self.ethnicity_distribution.den)
    /\ \A e \in KeySet(self.ethnicity_distribution.items), gene \in Genes :
          ~choice_raises(Values(get_allele_frequencies(e, gene)), ProbDen)
    /\ self.age_range[1] <= self.age_range[2]

\* C1: for every cohort size N >= 0 and valid configuration, generate()
\* returns exactly N individuals, in generation order, with subject ids
\* 1, 2, ..., N (no gap, no repeat); it raises only for an invalid configuration.
C1_GenerateReturnsN ==
    \A g \in GenIds :
        LET self == generators[g]
        IN /\ self.status = "running" =>
                /\ Len(self.population) = self.i
                /\ self.i <= self.n_subjects
           /\ self.status = "returned" => Len(self.population) = self.n_subjects
           /\ \A k \in 1..Len(self.population) : self.population[k].subject_id = k
           /\ self.status = "raised" => ~ValidConfiguration(self)

C1_Witness ==
    /\ generators[1].status = "returned"
    /\ generators[1].n_subjects >= 2
    /\ Len(generators[1].population) >= 2

\* the classes as the specification words them, on the exact score sqrt(rad)
SpecifiedClass(score) ==
    CASE score.rad <= 25 * 25 -> POOR
      [] 25 * 25 < score.rad /\ score.rad <= 100 * 100 -> INTERMEDIATE
      [] 100 * 100 < score.rad /\ score.rad <= 200 * 200 -> NORMAL
      [] score.rad > 200 * 200 -> ULTRA_RAPID

\* C2: the metabolizer class is a function of the combined activity score
\* alone: <= 0.25 Poor, (0.25, 1.0] Intermediate, (1.0, 2.0] Normal, > 2.0
\* Ultra-rapid, the boundaries in the lower class; every generated individual's
\* metabolizer_status is that function of its combined_activity_score.
C2_ClassificationByScore ==
    \A gk \in Individuals :
        /\ Ind(gk).combined_activity_score.coef = ScoreScale
        /\ Ind(gk).metabolizer_status = SpecifiedClass(Ind(gk).combined_activity_score)

\* an individual sits exactly on the boundary 1.0 and is Intermediate
C2_Witness ==
    \E gk \in Individuals :
        /\ Ind(gk).combined_activity_score.rad = 100 * 100
        /\ Ind(gk).metabolizer_status = INTERMEDIATE

\* C3: each genotype is a pair (a, b) with a <= b in the sort order, the same
\* for the draws (A,B) and (B,A), and both are allele labels of the frequency
\* table used for that gene and the individual's ethnicity.
C3_GenotypeCanonical ==
    /\ \A gk \in Individuals :
          \A gt \in { <<"CYP2C19", Ind(gk).cyp2c19_genotype>>,
                      <<"CYP3A4", Ind(gk).cyp3a4_genotype>> } :
              /\ Len(gt[2]) = 2
              /\ StrLeq(gt[2][1], gt[2][2])
              /\ {gt[2][1], gt[2][2]} \subseteq
                    KeySet(get_allele_frequencies(Ind(gk).ethnicity, gt[1]))
    /\ \A g \in GenIds :
          Len(generators[g].population) > 0 =>
              LET last == generators[g].population[Len(generators[g].population)]
                  drawn == alleles_drawn[g]
              IN /\ {last.cyp2c19_genotype[1], last.cyp2c19_genotype[2]}
                       = {drawn["CYP2C19"][1], drawn["CYP2C19"][2]}
                 /\ {last.cyp3a4_genotype[1], last.cyp3a4_genotype[2]}
                       = {drawn["CYP3A4"][1], drawn["CYP3A4"][2]}

\* the two CYP2C19 alleles were drawn in descending order, (B, A) with A < B
C3_Witness ==
    /\ Len(generators[1].population) > 0
    /\ ~StrLeq(alleles_drawn[1]["CYP2C19"][1], alleles_drawn[1]["CYP2C19"][2])
    /\ generators[1].population[Len(generators[1].population)].cyp2c19_genotype
          = <<alleles_drawn[1]["CYP2C19"][2], alleles_drawn[1]["CYP2C19"][1]>>

\* C4: two generators created with the same seed and configuration return
\* identical cohorts, whatever the interleaving of their construction and
\* generate() calls.
C4_SameSeedSameCohort ==
    \A g \in GenIds, h \in GenIds :
        /\ generators[g].status = "returned" /\ generators[h].status = "returned"
        /\ generators[g].random_seed # <<>>
        /\ generators[g].random_seed = generators[h].random_seed
        /\ generators[g].n_subjects = generators[h].n_subjects
        /\ generators[g].ethnicity_distribution = generators[h].ethnicity_distribution
        /\ generators[g].age_range = generators[h].age_range
        => generators[g].population = generators[h].population

\* C5: with either data file missing the load is fatal: the module never
\* becomes usable, with empty tables or otherwise.
C5_MissingFileFatal ==
    module_state = "imported" => {ALLELE_FILE, SCORE_FILE} \subseteq DOMAIN data_files

\* what the specification says the lookup returns
SpecifiedFrequencies(ethnicity, gene) ==
    LET used == IF ethnicity \in DOMAIN _ALLELE_FREQ_DATA THEN ethnicity ELSE EAST_ASIAN
    IN IF used \in DOMAIN _ALLELE_FREQ_DATA
       THEN IF gene \in DOMAIN _ALLELE_FREQ_DATA[used]
            THEN _ALLELE_FREQ_DATA[used][gene]
            ELSE << <<"*1", ProbDen>> >>
       ELSE << <<"*1", ProbDen>> >>

\* C6: get_allele_frequencies never fails: an ethnicity absent from the table
\* is looked up under "East Asian", a gene absent from that table yields
\* {"*1": 1.0}, otherwise the table entry is returned.
C6_FrequencyLookupTotal ==
    \A k \in 1..Len(Ethnicity), gene \in Genes \cup {"CYP2D6"} :
        /\ get_allele_frequencies(Ethnicity[k], gene) # KeyError
        /\ get_allele_frequencies(Ethnicity[k], gene)
              = SpecifiedFrequencies(Ethnicity[k], gene)

\* an individual of an ethnicity absent from the loaded table carries an
\* allele that only the "East Asian" table supplies
C6_Witness ==
    \E gk \in Individuals :
        /\ Ind(gk).ethnicity \notin DOMAIN _ALLELE_FREQ_DATA
        /\ EAST_ASIAN \in DOMAIN _ALLELE_FREQ_DATA
        /\ Ind(gk).cyp2c19_genotype[2] # "*1"

\* C7: PopulationGenerator accepts proportions that do not sum to 1 and
\* generate() still returns N individuals without error.
C7_UnnormalizedAccepted ==
    \A g \in GenIds :
        LET self == generators[g]
            nums == Values(self.ethnicity_distribution.items)
        IN /\ self.via = "direct"
           /\ SeqSum(nums) > 0
           /\ \A k \in 1..Len(nums) : nums[k] >= 0
           => /\ self.status # "raised"
              /\ self.status = "returned" => Len(self.population) = self.n_subjects

\* C8: zero-sum proportions at an entry point are normalised to an even
\* split and generation completes with N individuals, without any error.
C8_ZeroSumEvenSplit ==
    \A g \in GenIds :
        LET self == generators[g]
            nums == Values(self.ethnicity_distribution.items)
        IN /\ self.via # "direct"
           /\ self.n_subjects > 0
           /\ SeqSum(nums) = 0
           => /\ self.status # "raised"
              /\ self.response.state # "error"
              /\ self.status = "returned" => Len(self.population) = self.n_subjects

\* the individual at position i of returned call r, solved on its own
Alone(r, i) ==
    solve(PBPKModel(returned[r].drug_params, returned[r].population_phys_params[i],
                    returned[r].sim_config))

\* C9: for a cohort of N >= 1 records and n_points samples the result holds an
\* N x n_points curve matrix, time, mean, standard-deviation and 5th/95th
\* percentile arrays of length n_points, and Cmax and AUC distributions of
\* length N; row i and entry i of each distribution are the i-th input
\* individual's.
C9_ShapesAndOrder ==
    \A r \in 1..Len(returned) :
        LET N == Len(returned[r].population_phys_params)
            n_points == returned[r].sim_config.n_points
            result == returned[r].result
        IN /\ Len(result.individual_curves) = N
           /\ \A i \in 1..N : Len(result.individual_curves[i]) = n_points
           /\ Len(result.time) = n_points
           /\ Len(result.mean_concentration) = n_points
           /\ Len(result.std_concentration) = n_points
           /\ Len(result.ci_lower) = n_points
           /\ Len(result.ci_upper) = n_points
           /\ Len(result.cmax_distribution) = N
           /\ Len(result.auc_distribution) = N
           /\ \A i \in 1..N :
                 /\ LET alone == Alone(r, i)
                    IN /\ result.individual_curves[i] = alone.c_plasma
                       /\ result.cmax_distribution[i] = alone.pk_metrics.cmax
                       /\ result.auc_distribution[i] = alone.pk_metrics.auc
                 /\ \A j \in 1..n_points :
                       RLeq(result.individual_curves[i][j], result.cmax_distribution[i])
                 /\ result.auc_distribution[i]
                       = trapezoid(result.individual_curves[i], result.time)

\* a returned cohort of three whose first two individuals have different curves
C9_Witness ==
    \E r \in 1..Len(returned) :
        /\ Len(returned[r].population_phys_params) = 3
        /\ returned[r].result.individual_curves[1] # returned[r].result.individual_curves[2]
        /\ returned[r].result.cmax_distribution[1] # returned[r].result.cmax_distribution[2]

\* C10: the row, Cmax and AUC of an individual depend only on the shared drug
\* parameters, the shared config and its own physiological parameters: in any
\* two calls with the same drug and config, equal individuals have equal rows,
\* Cmax and AUC, whatever their positions and whoever else is in the cohorts.
C10_NoCrossIndividualState ==
    \A r \in 1..Len(returned), q \in 1..Len(returned) :
        /\ returned[r].drug_params = returned[q].drug_params
        /\ returned[r].sim_config = returned[q].sim_config
        => \A i \in 1..Len(returned[r].population_phys_params),
              j \in 1..Len(returned[q].population_phys_params) :
               returned[r].population_phys_params[i] = returned[q].population_phys_params[j]
               => /\ returned[r].result.individual_curves[i]
                        = returned[q].result.individual_curves[j]
                  /\ returned[r].result.cmax_distribution[i]
                        = returned[q].result.cmax_distribution[j]
                  /\ returned[r].result.auc_distribution[i]
                        = returned[q].result.auc_distribution[j]

\* two calls with the same drug and config: an individual is second of three
\* in the first and first of two, beside another neighbour, in the second
C10_Witness ==
    /\ Len(returned) = 2
    /\ returned[1].drug_params = returned[2].drug_params
    /\ returned[1].sim_config = returned[2].sim_config
    /\ Len(returned[1].population_phys_params) = 3
    /\ Len(returned[2].population_phys_params) = 2
    /\ returned[1].population_phys_params[2] = returned[2].population_phys_params[1]
    /\ returned[1].population_phys_params[1] # returned[2].population_phys_params[2]
    /\ returned[1].population_phys_params[1] # returned[1].population_phys_params[2]

\* the samples of a call that the specification keeps for the half-life
TerminalSamples(call) ==
    LET cmax_idx == CHOOSE k \in 1..Len(call.c_plasma) :
                        /\ \A j \in 1..Len(call.c_plasma) :
                               RLeq(call.c_plasma[j], call.c_plasma[k])
                        /\ \A j \in 1..(k - 1) : call.c_plasma[j] # call.c_plasma[k]
    IN {k \in 1..Len(call.t) :
            /\ RLt(call.t[cmax_idx], call.t[k])
            /\ RLt(RMul(<<1, 10>>, call.c_plasma[cmax_idx]), call.c_plasma[k])}

\* The least-squares slope of ln c over the samples K is
\*   sum_{i<j} (t_j - t_i) (ln c_j - ln c_i) / sum_{i<j} (t_j - t_i)^2 ,
\* so -slope * sum_{i<j} (t_j - t_i)^2 / step is the logarithm of this product
\* (step is the grid step, which makes the exponents integers)
PairwiseDecay(call, K) ==
    LET step == RSub(call.t[2], call.t[1])
        pairs == {ij \in K \X K : ij[1] < ij[2]}
        RECURSIVE Over(_)
        Over(S) ==
            IF S = {} THEN <<1, 1>>
            ELSE LET ij == CHOOSE x \in S : TRUE
                 IN RMul(RPow(RDiv(call.c_plasma[ij[1]], call.c_plasma[ij[2]]),
                              RDiv(RSub(call.t[ij[2]], call.t[ij[1]]), step)[1]),
                         Over(S \ {ij}))
    IN Over(pairs)

PairwiseSquares(call, K) ==
    LET pairs == {ij \in K \X K : ij[1] < ij[2]}
        RECURSIVE Over(_)
        Over(S) ==
            IF S = {} THEN <<0, 1>>
            ELSE LET ij == CHOOSE x \in S : TRUE
                     dt == RSub(call.t[ij[2]], call.t[ij[1]])
                 IN RAdd(RMul(dt, dt), Over(S \ {ij}))
    IN Over(pairs)

\* C11: half-life extraction never raises; with fewer than 3 samples having
\* time > Tmax and concentration > 10% of Cmax, or with a fitted log-linear
\* slope that is not negative, t_half is None; otherwise t_half is the number
\* -ln(2)/slope, which is positive.
C11_HalfLifeAbsentOrPositive ==
    /\ metrics_call.pc \in {"idle", "called", "returned"}
    /\ metrics_call.pc = "returned" =>
          LET K == TerminalSamples(metrics_call)
              t_half == metrics_call.result.t_half
              decay == PairwiseDecay(metrics_call, K)
              negative == RLt(<<1, 1>>, decay)
          IN /\ (Cardinality(K) < 3 \/ ~negative) => t_half = None
             /\ (Cardinality(K) >= 3 /\ negative) =>
                   /\ t_half # None
                   /\ RLt(<<0, 1>>, t_half[1].ln2_times)
                   /\ RLt(<<1, 1>>, t_half[1].over_ln)
                   \* ln(2) * ln2_times / ln(over_ln) = -ln(2) / slope, that is
                   \* ln(decay) / ln(over_ln) = sum of squares / (step * ln2_times)
                   /\ LET step == RSub(metrics_call.t[2], metrics_call.t[1])
                          rho == RDiv(PairwiseSquares(metrics_call, K),
                                      RMul(step, t_half[1].ln2_times))
                      IN RPow(decay, rho[2]) = RPow(t_half[1].over_ln, rho[1])

\* a curve with three decaying samples after its peak has a half-life
C11_Witness ==
    /\ metrics_call.pc = "returned"
    /\ Cardinality(TerminalSamples(metrics_call)) = 3
    /\ metrics_call.result.t_half # None

\* C12: solve() integrates from a route-dependent initial state: oral has
\* A_gut = dose and C_plasma = C_liver = 0; intravenous has
\* C_plasma = dose / Vc with Vc = Vd-per-kg * body weight and A_gut = C_liver = 0.
C12_InitialState ==
    \A r \in 1..Len(returned) :
        \A i \in 1..Len(returned[r].population_phys_params) :
            LET drug == returned[r].drug_params
                phys == returned[r].population_phys_params[i]
                config == returned[r].sim_config
                Vc == RMul(drug.v_d, phys.body_weight)
                y0 == initial_conditions(config, Vc)
                alone == Alone(r, i)
            IN /\ config.route = "oral" =>
                     /\ y0 = <<config.dose, <<0, 1>>, <<0, 1>>>>
                     /\ returned[r].result.individual_curves[i][1] = <<0, 1>>
               /\ config.route # "oral" =>
                     /\ y0 = <<<<0, 1>>, RDiv(config.dose, Vc), <<0, 1>>>>
                     /\ returned[r].result.individual_curves[i][1]
                           = RMul(<<1000, 1>>, RDiv(config.dose, Vc))
               /\ alone.c_liver[1] = <<0, 1>>
               \* the first step has nothing to take out of an empty compartment
               /\ config.route = "oral" =>
                     RLt(<<0, 1>>, returned[r].result.individual_curves[i][2])
               /\ config.route # "oral" =>
                     RLt(returned[r].result.individual_curves[i][2],
                         returned[r].result.individual_curves[i][1])

\* an intravenous call and an oral call have both returned
C12_Witness ==
    /\ Len(returned) = 2
    /\ returned[1].sim_config.route = "iv"
    /\ returned[2].sim_config.route = "oral"

-----------------------------------------------------------------------------
(* The safety report *)

SafetyReturned == safety_call.pc = "returned" /\ safety_call.results # None
StrictlyAbove(d, th) == Cardinality({i \in 1..Len(d) : RLt(th, d[i])})
PairwiseDistinct(d) == \A i, j \in 1..Len(d) : i # j => d[i] # d[j]
Exactly(x, k) == DDistance(x, float(k)).m = <<>>
RoundingTolerance == [m |-> <<1>>, e |-> -44]

\* C13 as stated: calculate_safety_margin reports n_total = the number of
\* values, n_exceeding_threshold = the number of values strictly above the
\* threshold, percentage_exceeding = 100 * n_exceeding / n_total exactly, the
\* two percentages summing to exactly 100, and safety_ratio = threshold /
\* 95th percentile.
C13_SafetyMarginExact ==
    SafetyReturned =>
        LET s == safety_call.safety
            d == safety_call.results.cmax_distribution
            th == safety_call.toxic_threshold
            p95 == percentile(d, 95)
        IN /\ s.n_total = Len(d)
           /\ s.n_exceeding_threshold = StrictlyAbove(d, th)
           /\ Exactly(DTimesInt(s.percentage_exceeding, Len(d)), 100 * StrictlyAbove(d, th))
           /\ Exactly(DPlus(s.percentage_exceeding, s.percentage_safe), 100)
           /\ p95 # RZero => RMul(s.safety_ratio, p95) = th

\* C13, amended: the counts are exact and safety_ratio = threshold / 95th
\* percentile; percentage_exceeding is 100 * n_exceeding / n_total and the
\* two percentages sum to 100 only up to the rounding of the floating-point
\* division and multiplication (here: within 2^-44), not exactly.
C13_SafetyMarginWithinRounding ==
    SafetyReturned =>
        LET s == safety_call.safety
            d == safety_call.results.cmax_distribution
            th == safety_call.toxic_threshold
            p95 == percentile(d, 95)
        IN /\ s.n_total = Len(d)
           /\ s.n_exceeding_threshold = StrictlyAbove(d, th)
           /\ DLeq(DDistance(DTimesInt(s.percentage_exceeding, Len(d)),
                             float(100 * StrictlyAbove(d, th))),
                   DTimesInt(RoundingTolerance, Len(d)))
           /\ DLeq(DDistance(DPlus(s.percentage_exceeding, s.percentage_safe), float(100)),
                   RoundingTolerance)
           /\ p95 # RZero => RMul(s.safety_ratio, p95) = th
           /\ p95 = RZero => s.safety_ratio \in {"inf", "nan"}

\* three values, one of them above the threshold and one equal to it
C13_Witness ==
    /\ SafetyReturned
    /\ safety_call.safety.n_total = 3
    /\ safety_call.safety.n_exceeding_threshold = 1
    /\ \E i \in 1..3 : safety_call.results.cmax_distribution[i] = safety_call.toxic_threshold
    /\ ~Exactly(DPlus(safety_call.safety.percentage_exceeding,
                      safety_call.safety.percentage_safe), 100)

\* C14: the report gets exactly one tier from the share of the cohort above
\* the threshold: more than 10 % danger, more than 5 % and at most 10 %
\* warning, at most 5 % success; exactly 10 % is warning, exactly 5 % success.
C14_RiskTier ==
    SafetyReturned =>
        LET d == safety_call.results.cmax_distribution
            n == StrictlyAbove(d, safety_call.toxic_threshold)
        IN safety_call.alert_color =
              IF 100 * n > 10 * Len(d) THEN "danger"
              ELSE IF 100 * n > 5 * Len(d) THEN "warning"
              ELSE "success"

\* exactly 10 % of a cohort above the threshold
C14_Witness ==
    /\ SafetyReturned
    /\ 100 * safety_call.safety.n_exceeding_threshold = 10 * safety_call.safety.n_total
    /\ safety_call.alert_color = "warning"

\* C15 as stated: with the threshold at the 95th percentile of the same
\* distribution, the number counted as exceeding differs from 0.05 * N by
\* less than one individual, whatever ties the distribution contains.
C15_PercentileThresholdAnyTies ==
    (SafetyReturned /\ safety_call.toxic_threshold
                         = percentile(safety_call.results.cmax_distribution, 95)) =>
        LET N == safety_call.safety.n_total
            n == safety_call.safety.n_exceeding_threshold
        IN 20 * n - N < 20 /\ N - 20 * n < 20

\* C15, amended: with the threshold at the 95th percentile of the same
\* distribution the number counted as exceeding is never one or more above
\* 0.05 * N, and it is less than one below 0.05 * N when the values are
\* pairwise distinct; with ties it can be lower, down to nobody.
C15_PercentileThresholdDistinct ==
    (SafetyReturned /\ safety_call.toxic_threshold
                         = percentile(safety_call.results.cmax_distribution, 95)) =>
        LET N == safety_call.safety.n_total
            n == safety_call.safety.n_exceeding_threshold
        IN /\ 20 * n - N < 20
           /\ PairwiseDistinct(safety_call.results.cmax_distribution) => N - 20 * n < 20

\* twenty distinct values with the threshold at their 95th percentile
C15_Witness ==
    /\ SafetyReturned
    /\ safety_call.toxic_threshold = percentile(safety_call.results.cmax_distribution, 95)
    /\ PairwiseDistinct(safety_call.results.cmax_distribution)
    /\ safety_call.safety.n_total = 20
    /\ safety_call.safety.n_exceeding_threshold = 1

-----------------------------------------------------------------------------
(* Generated individuals *)

GeneratedIndividuals == {Ind(gk) : gk \in Individuals}

\* C16: every generated individual has 40 kg <= weight <= 150 kg and
\* 140 cm <= height <= 200 cm, and the body weight stored in the individual's
\* physiological parameters is that same clamped weight.
C16_AnthropometricsClamped ==
    \A ind \in GeneratedIndividuals :
        /\ 40000 <= ind.weight /\ ind.weight <= 150000
        /\ 1400 <= ind.height /\ ind.height <= 2000
        /\ ind.phys_params.body_weight = ind.weight

\* individuals at each of the four clamps
C16_Witness ==
    /\ \E ind \in GeneratedIndividuals : ind.weight = 150000 /\ ind.phys_params.body_weight = 150000
    /\ \E ind \in GeneratedIndividuals : ind.weight = 40000 \/ ind.height = 2000 \/ ind.height = 1400

\* the score the activity-score table gives an allele, 1.0 when the allele
\* or the gene is missing from it
TableScore(gene, allele) ==
    IF gene \in DOMAIN _ACTIVITY_SCORE_DATA /\ allele \in DOMAIN _ACTIVITY_SCORE_DATA[gene]
    THEN _ACTIVITY_SCORE_DATA[gene][allele]
    ELSE ScoreScale

\* C17: for every generated individual each per-gene activity score is the
\* sum of the table scores of the two alleles of the genotype (1.0 for an
\* allele or gene missing from the table), and the combined score is the
\* non-negative root of the product of the two gene scores; a gene score of
\* 0 forces the combined score 0.
C17_ActivityScores ==
    \A ind \in GeneratedIndividuals :
        /\ ind.cyp2c19_activity_score =
              TableScore("CYP2C19", ind.cyp2c19_genotype[1])
                + TableScore("CYP2C19", ind.cyp2c19_genotype[2])
        /\ ind.cyp3a4_activity_score =
              TableScore("CYP3A4", ind.cyp3a4_genotype[1])
                + TableScore("CYP3A4", ind.cyp3a4_genotype[2])
        /\ ind.combined_activity_score.coef = ScoreScale
        /\ ind.combined_activity_score.rad =
              ind.cyp2c19_activity_score * ind.cyp3a4_activity_score
        /\ (ind.cyp2c19_activity_score = 0 \/ ind.cyp3a4_activity_score = 0)
              => SurdLeq(ind.combined_activity_score, 0)

\* an individual whose genotype has an allele the table lacks, and an
\* individual with one gene score 0 and the other positive
C17_Witness ==
    /\ \E ind \in GeneratedIndividuals :
          /\ "CYP2C19" \in DOMAIN _ACTIVITY_SCORE_DATA
          /\ ind.cyp2c19_genotype[2] \notin DOMAIN _ACTIVITY_SCORE_DATA["CYP2C19"]
    /\ \E ind \in GeneratedIndividuals :
          /\ ind.cyp2c19_activity_score = 0
          /\ ind.cyp3a4_activity_score > 0
          /\ ind.combined_activity_score.rad = 0

-----------------------------------------------------------------------------
(* The pipeline *)

\* the square of a float coef * sqrt(rad)
SurdSquare(a) == RMul(RMul(a.coef, a.coef), a.rad)

\* the parameters solve() computed for the k-th individual of the running call
SolvedParameters(k) ==
    ode_parameters(PBPKModel(simulation.drug_params, simulation.population_phys_params[k],
                             simulation.sim_config))

C19_InputsNeverMutated ==
    [][/\ \A k \in 1..Len(generators[1].population) :
             /\ Len(generators'[1].population) >= k
             /\ generators'[1].population[k] = generators[1].population[k]
       /\ generators[1].response.state = "ok"
             => /\ generators'[1].response = generators[1].response
                /\ \A k \in 1..Len(generators[1].population) :
                      generators[1].response.individuals[k].phys_params
                        = generators[1].population[k].phys_params
       /\ (simulation.pc = "loop" /\ simulation'.pc = "loop")
             => /\ simulation'.drug_params = simulation.drug_params
                /\ simulation'.sim_config = simulation.sim_config
                /\ simulation'.population_phys_params = simulation.population_phys_params
       /\ simulation.pc = "loop"
             => \A k \in 1..Len(simulation.population_phys_params) :
                   simulation.population_phys_params[k]
                     = PhysiologicalParameters(generators[1].population[k].phys_params)
       /\ \A r \in 1..Len(returned) : returned'[r] = returned[r]
       /\ safety_call.pc # "idle"
             => /\ safety_call'.results = safety_call.results
                /\ safety_call.results.cmax_distribution
                      = returned[1].result.cmax_distribution
      ]_vars

\* the pipeline ran to its end on a cohort of two
C19_Witness ==
    /\ Len(generators[1].population) = 2
    /\ Len(returned) = 1
    /\ safety_call.pc = "returned"
    /\ safety_call.safety.n_total = 2

\* C20: a running cohort simulation can be cancelled between two solves,
\* and a cancelled simulation returns nothing: no call during which a
\* cancellation was requested ever returns a result.
C20_CancelledRunReturnsNothing ==
    \A r \in 1..Len(returned) : r \notin cancel_requested


-----------------------------------------------------------------------------
\* C21: with renal clearance 0, intrinsic clearance 0 and Kp = 1 the ODE
\* conserves mass apart from absorption: the gut loses k_a * A_gut, plasma and
\* liver together gain k_a * A_gut * F (the exchange terms between plasma and
\* liver cancel), so the total quantity A_gut + V_c * C_plasma +
\* V_liver * C_liver changes at the rate -k_a * A_gut * (1 - F).
OdeReturned == metrics_call.pc = "returned" /\ "y" \in DOMAIN metrics_call

NoElimination(params) ==
    /\ params.CL_renal = <<0, 1>>
    /\ params.CL_int = <<0, 1>>
    /\ params.K_p = <<1, 1>>

C21_MassBalance ==
    (OdeReturned /\ NoElimination(metrics_call.params)) =>
        LET p == metrics_call.params
            y == metrics_call.y
            dy == metrics_call.result
            absorbed == RMul(p.k_a, y[1])
            into_body == RAdd(RMul(p.V_c, dy[2]), RMul(p.V_liver, dy[3]))
        IN /\ dy[1] = RNeg(absorbed)
           /\ into_body = RMul(absorbed, p.F)
           /\ RAdd(dy[1], into_body) = RNeg(RMul(absorbed, RSub(<<1, 1>>, p.F)))

\* a state with drug in all three compartments and incomplete absorption
C21_Witness ==
    /\ OdeReturned
    /\ NoElimination(metrics_call.params)
    /\ \A c \in 1..3 : metrics_call.y[c] = <<3, 1>>
    /\ metrics_call.params.F = <<1, 2>>
    /\ metrics_call.result[3] = <<0, 1>>
    /\ metrics_call.result[2] = <<1, 2>>

-----------------------------------------------------------------------------
\* C22: for a fixed individual, drug, route, horizon and grid, doubling the
\* dose doubles every sample of the plasma curve, hence doubles Cmax and AUC,
\* and leaves Tmax unchanged.
DoseReturned == metrics_call.pc = "returned" /\ "results" \in DOMAIN metrics_call

Twice(x) == RMul(<<2, 1>>, x)

-----------------------------------------------------------------------------
\* C23: get_population_summary is a pure reducer: n_subjects is the cohort
\* length, male + female = n_subjects, male_ratio = male / n_subjects, the
\* counts per ethnicity cover all five values and sum to n_subjects, the
\* counts per phenotype cover all four classes and sum to n_subjects, and
\* min <= mean <= max for age, weight and activity score; the call changes
\* neither the cohort nor the state of the random generator.
\* The means are sums of doubles divided by n: for weight and activity score
\* the order holds up to the rounding of that sum.
SummaryReturned == metrics_call.pc = "returned" /\ "population" \in DOMAIN metrics_call

RECURSIVE Total(_, _)
Total(counts, keys) ==
    IF keys = {} THEN 0
    ELSE LET k == CHOOSE x \in keys : TRUE IN counts[k] + Total(counts, keys \ {k})

Between(x, lo, hi) == DLeq(lo, x) /\ DLeq(x, hi)

\* 2^-50 of the largest value
Slack(hi) == [m |-> hi.m, e |-> hi.e - 50]

BetweenRounded(x, lo, hi) ==
    /\ DLeq(lo, DPlus(x, Slack(hi)))
    /\ DLeq(x, DPlus(hi, Slack(hi)))

SummaryCounts ==
    LET r == metrics_call.result
        n == Len(metrics_call.population)
    IN /\ r.n_subjects = n
       /\ r.male + r.female = n
       /\ r.male_ratio = float_divide(r.male, n)
       /\ DOMAIN r.ethnicity_distribution = {Ethnicity[k] : k \in 1..Len(Ethnicity)}
       /\ Cardinality(DOMAIN r.ethnicity_distribution) = 5
       /\ Total(r.ethnicity_distribution, DOMAIN r.ethnicity_distribution) = n
       /\ DOMAIN r.metabolizer_distribution =
              {MetabolizerStatus[k] : k \in 1..Len(MetabolizerStatus)}
       /\ Cardinality(DOMAIN r.metabolizer_distribution) = 4
       /\ Total(r.metabolizer_distribution, DOMAIN r.metabolizer_distribution) = n

SummaryPure ==
    metrics_call.pc = "called" =>
        /\ metrics_call'.population = metrics_call.population
        /\ np_random' = np_random

\* the statement with the order of the means taken exactly
C23_SummaryExact ==
    /\ [](SummaryReturned =>
            LET r == metrics_call.result
            IN /\ SummaryCounts
               /\ Between(r.age_mean, r.age_min, r.age_max)
               /\ Between(r.weight_mean, r.weight_min, r.weight_max)
               /\ Between(r.activity_score_mean, r.activity_score_min,
                          r.activity_score_max))
    /\ [][SummaryPure]_vars

C23_SummaryWithinRounding ==
    /\ [](SummaryReturned =>
            LET r == metrics_call.result
            IN /\ SummaryCounts
               /\ Between(r.age_mean, r.age_min, r.age_max)
               /\ BetweenRounded(r.weight_mean, r.weight_min, r.weight_max)
               /\ BetweenRounded(r.activity_score_mean, r.activity_score_min,
                                 r.activity_score_max))
    /\ [][SummaryPure]_vars

\* a cohort of MaxSummary individuals of both genders, and a cohort whose
\* mean activity score lies above its largest score
C23_Witness ==
    /\ SummaryReturned
    /\ Len(metrics_call.population) = MaxSummary
    /\ metrics_call.result.male > 0
    /\ metrics_call.result.female > 0
    /\ metrics_call.result.ethnicity_distribution[LATINO] = 0
    /\ DLt(metrics_call.result.age_min, metrics_call.result.age_mean)

-----------------------------------------------------------------------------
\* C24: run_population_simulation solves every individual of the cohort
\* exactly once and in input order: each iteration solves the next individual
\* and fills the next row only; the statistics are computed, and the call
\* returns, only after the last individual's solve, and the result covers the
\* whole cohort.
SolvedNext ==
    LET i == simulation.i
        model == PBPKModel(simulation.drug_params, simulation.population_phys_params[i + 1],
                           simulation.sim_config)
        result == solve(model)
    IN /\ i < simulation.n_subjects
       /\ simulation'.i = i + 1
       /\ simulation'.all_pk_metrics = Append(simulation.all_pk_metrics, result.pk_metrics)
       /\ simulation'.all_c_plasma =
              [simulation.all_c_plasma EXCEPT ![i + 1] = result.c_plasma]
       /\ returned' = returned

ReturnedWhole ==
    LET n == Len(simulation.population_phys_params)
        result == returned'[Len(returned')].result
    IN /\ simulation.pc = "loop"
       /\ simulation.i = n
       /\ Len(simulation.all_pk_metrics) = n
       /\ returned'[Len(returned')].population_phys_params =
              simulation.population_phys_params
       /\ result.individual_curves = simulation.all_c_plasma
       /\ Len(result.individual_curves) = n
       /\ Len(result.cmax_distribution) = n
       /\ Len(result.auc_distribution) = n
       /\ result.pk_metrics_list = simulation.all_pk_metrics
       /\ result.mean_concentration =
              mean_axis0(simulation.all_c_plasma, simulation.n_points)

C24_ReductionBarrier ==
    [][/\ (simulation.pc = "loop" /\ simulation'.pc = "loop") => SolvedNext
       /\ simulation.pc = "loop" => Len(simulation.all_pk_metrics) = simulation.i
       /\ (Len(returned') # Len(returned)) =>
              (Len(returned') = Len(returned) + 1 /\ ReturnedWhole)]_simulation_vars

\* a call on a cohort of MaxCohort different individuals has returned
C24_Witness ==
    /\ Len(returned) >= 1
    /\ Len(returned[1].population_phys_params) = MaxCohort
    /\ returned[1].population_phys_params[1] # returned[1].population_phys_params[2]
    /\ Len(returned[1].result.cmax_distribution) = MaxCohort
    /\ returned[1].result.individual_curves[1] # returned[1].result.individual_curves[2]

-----------------------------------------------------------------------------
\* C25: every solve() of one run uses the same time grid, n_points uniformly
\* spaced samples from 0 to t_max inclusive; the run keeps the grid of the
\* first individual's solve, that grid equals the grid of every later solve,
\* and it is the grid the run returns.
UniformGrid(t, sim_config) ==
    /\ Len(t) = sim_config.n_points
    /\ t[1] = <<0, 1>>
    /\ t[Len(t)] = sim_config.t_max
    /\ \A k \in 1..(Len(t) - 1) :
          RSub(t[k + 1], t[k]) = RDiv(sim_config.t_max, <<sim_config.n_points - 1, 1>>)

SolvedOnSharedGrid ==
    LET model == PBPKModel(simulation.drug_params,
                           simulation.population_phys_params[simulation.i + 1],
                           simulation.sim_config)
        result == solve(model)
    IN /\ UniformGrid(result.time, simulation.sim_config)
       /\ simulation'.time = <<result.time>>
       /\ simulation.i = 0 <=> simulation.time = None
       /\ simulation.i > 0 => simulation.time = <<result.time>>

C25_SharedTimeGrid ==
    [][/\ (simulation.pc = "loop" /\ simulation'.pc = "loop") => SolvedOnSharedGrid
       /\ (Len(returned') # Len(returned)) =>
              /\ simulation.time = <<returned'[Len(returned')].result.time>>
              /\ UniformGrid(returned'[Len(returned')].result.time,
                             simulation.sim_config)]_simulation_vars

\* a returned run of several individuals on the longer grid
C25_Witness ==
    /\ Len(returned) >= 1
    /\ Len(returned[1].population_phys_params) >= 2
    /\ returned[1].sim_config.n_points = MaxPoints
    /\ Len(returned[1].result.time) = MaxPoints
    /\ returned[1].result.time[MaxPoints] = returned[1].sim_config.t_max
    /\ returned[1].result.time[2] = <<1, 1>>

-----------------------------------------------------------------------------
\* C26: the result handed to the consumer (the Dash store, the Flask answer)
\* holds exactly the first min(N, 50) rows of the curve matrix, in cohort
\* order; the time grid, the mean curve, the percentile bands and the Cmax
\* and AUC distributions are passed in full, the distributions with one
\* entry per individual.
ConsumerReceived ==
    /\ Len(returned) = 1
    /\ \/ safety_call.pc = "responded" /\ safety_call.code = 200
       \/ safety_call.pc \in {"called", "returned"} /\ safety_call.results # None

Received == IF safety_call.pc = "responded" THEN safety_call.response
            ELSE safety_call.results

C26_BoundedCurves ==
    ConsumerReceived =>
        LET full == returned[1].result
            N == Len(returned[1].population_phys_params)
            shown == IF N < 50 THEN N ELSE 50
        IN /\ Len(Received.individual_curves) = shown
           /\ \A k \in 1..shown :
                 Received.individual_curves[k] = full.individual_curves[k]
           /\ Received.time = full.time
           /\ Received.mean_concentration = full.mean_concentration
           /\ Received.ci_lower = full.ci_lower
           /\ Received.ci_upper = full.ci_upper
           /\ Received.cmax_distribution = full.cmax_distribution
           /\ Received.auc_distribution = full.auc_distribution
           /\ Len(Received.cmax_distribution) = N
           /\ Len(Received.auc_distribution) = N

\* a cohort of more than 50 individuals answered by Flask
C26_Witness ==
    /\ ConsumerReceived
    /\ safety_call.pc = "responded"
    /\ Len(returned[1].population_phys_params) > 50
    /\ Len(safety_call.response.individual_curves) = 50
    /\ Len(safety_call.response.cmax_distribution) > 50
    /\ safety_call.response.individual_curves[1] # safety_call.response.individual_curves[2]

-----------------------------------------------------------------------------
\* C27: an exception of one individual's solve() is not caught inside
\* run_population_simulation: the run ends there without a result, partial
\* or whole, the consumer receives no statistics (Flask answers with
\* success = False and status 500, the Dash store is left alone), and no
\* returned result was computed over a cohort with the failing individual
\* left out.
NextSolveRaises ==
    /\ simulation.pc = "loop"
    /\ simulation.i < simulation.n_subjects
    /\ solve_raises(PBPKModel(simulation.drug_params,
                              simulation.population_phys_params[simulation.i + 1],
                              simulation.sim_config))

NothingFromARaisedRun ==
    /\ simulation.pc = "raised" => returned = <<>> /\ safety_call.pc = "idle"
    /\ Len(returned) = 1 =>
          LET r == returned[1]
              N == Len(r.population_phys_params)
          IN /\ \A k \in 1..N :
                   ~solve_raises(PBPKModel(r.drug_params, r.population_phys_params[k],
                                           r.sim_config))
             /\ Len(r.result.individual_curves) = N
             /\ Len(r.result.pk_metrics_list) = N
             /\ N = Len(r.caller.individuals)
    /\ safety_call.pc = "responded" =>
          IF safety_call.code = 200 THEN Len(returned) = 1
          ELSE /\ safety_call.response.success = FALSE
               /\ "mean_concentration" \notin DOMAIN safety_call.response
               /\ returned = <<>>
    /\ safety_call.pc \in {"called", "returned"} /\ safety_call.results # None =>
          Len(returned) = 1

C27_FailureAbortsRun ==
    /\ []NothingFromARaisedRun
    /\ [][NextSolveRaises =>
            /\ simulation'.pc = "raised"
            /\ returned' = returned
            /\ safety_call' = safety_call]_vars

\* the second of two individuals raised after the first was solved
C27_Witness ==
    /\ simulation.pc = "raised"
    /\ Len(simulation.caller.individuals) = 2
    /\ simulation.caller.individuals[1] = StoredIndividuals[1]
    /\ simulation.caller.individuals[2].phys_params.body_weight = 0
    /\ returned = <<>>

-----------------------------------------------------------------------------
\* C28: the dashboard is a two-step workflow.  The run-simulation button
\* starts disabled and only a completed generate_population enables it; the
\* simulation callback reached without a stored population (store None or
\* without individuals) stores no results and shows an alert; so the
\* simulation-results store holds results only after a population was
\* generated, the run was on the stored individuals of that population, and
\* the pop_summary stored with the results is the summary of that population.
ResultsStored ==
    /\ safety_call.pc \in {"called", "returned"}
    /\ safety_call.results # None

TwoSteps ==
    /\ generators[1].status = "absent" => run_simulation_disabled(1)
    /\ simulation.pc = "loop" =>
          /\ ~run_simulation_disabled(1)
          /\ simulation.caller.individuals = generators[1].response.individuals
    /\ ResultsStored =>
          /\ ~run_simulation_disabled(1)
          /\ generators[1].status = "returned"
          /\ Len(returned) = 1
          /\ returned[1].caller.individuals = generators[1].response.individuals
          /\ Len(returned[1].population_phys_params) = Len(generators[1].population)
          /\ safety_call.results.pop_summary = generators[1].response.summary
          /\ safety_call.results.pop_summary =
                get_population_summary(generators[1].population).value
          /\ safety_call.results.pop_summary.n_subjects =
                Len(safety_call.results.cmax_distribution)

-----------------------------------------------------------------------------
\* C29: the seed of a generator is applied once, in the constructor, and
\* generate() never reseeds: the random stream changes only by the seeding
\* of __init__ and by the draws of the loop; a call of generate(), the first
\* or a later one, starts from the stream as it is, so a second call
\* continues where the first one stopped; and each individual is made of
\* the next ten draws in the order ethnicity, gender, age, weight, height,
\* two CYP2C19 alleles, two CYP3A4 alleles, clearance variability.
Seeding ==
    /\ generators[1].status = "absent"
    /\ generators'[1].status = "constructed"
    /\ generators'[1].random_seed # <<>>
    /\ np_random' = seed_state(generators'[1].random_seed[1])

EntersGenerate ==
    /\ generators[1].status \in {"constructed", "returned"}
    /\ generators'[1].status = "running"

DrawsInOrder ==
    LET self == generators[1]
        s == np_random
        new == generators'[1].population[Len(generators'[1].population)]
        ethnicity == _sample_ethnicity(self, after(s, 1)).value
        gender == IF random_below(after(s, 2), self.gender_ratio) THEN "M" ELSE "F"
        age == randint(self.age_range[1], self.age_range[2] + 1, after(s, 3))
        anthro == _sample_anthropometrics(self, gender, age, after(s, 4), after(s, 5))
    IN /\ Len(generators'[1].population) = Len(generators[1].population) + 1
       /\ new.ethnicity = ethnicity
       /\ new.gender = gender
       /\ new.age = age
       /\ new.weight = anthro.weight
       /\ new.height = anthro.height
       /\ new.cyp2c19_genotype
             = _sample_genotype("CYP2C19", ethnicity, after(s, 6), after(s, 7)).value
       /\ new.cyp3a4_genotype
             = _sample_genotype("CYP3A4", ethnicity, after(s, 8), after(s, 9)).value
       /\ new.phys_params
             = _generate_physiological_params(self, anthro.weight, age, gender,
                                              new.combined_activity_score, after(s, 10))
       /\ np_random' = after(s, 10)

C29_SeedOnceThenStream ==
    [][/\ np_random' # np_random =>
             \/ Seeding
             \/ generators[1].status = "running"
       /\ EntersGenerate =>
             /\ np_random' = np_random
             /\ generators'[1].population = <<>>
             /\ generators'[1].random_seed = generators[1].random_seed
       /\ generators[1].status = "running" /\ generators'[1].status = "running" =>
             DrawsInOrder
      ]_vars

\* a second generate() of a generator seeded with 0 returned two individuals
\* made of the draws 21 to 40 of the stream
C29_Witness ==
    LET self == generators[1]
        s == after(seed_state(0), 20)
    IN /\ self.status = "returned"
       /\ self.random_seed = <<0>>
       /\ self.n_subjects = 2
       /\ Len(self.population) = 2
       /\ np_random = after(seed_state(0), 40)
       /\ s # seed_state(0)
       /\ self.population[1] = generate_one(self, 0, s).individual
       /\ self.population[1] # generate_one(self, 0, seed_state(0)).individual

-----------------------------------------------------------------------------
\* C30: the physiological parameters handed to run_population_simulation by
\* the Dash and the Flask layer are, field by field and position by position,
\* the values stored for the individual, and for a generated cohort the
\* values the generator produced: the rounding of the displayed weight and
\* activity score is not applied to them; a default (70 kg, 3.0 L, 1.5 L,
\* 90 L/h, 10 L/h, 0, 1.0) stands only where the stored record lacks the key.
Handed == simulation.pc = "loop" /\ simulation.i = 0

\* the value the model holds (grams, millilitres) in the units of the program
InUnits(v) == Rat(v, 1000)
SurdInUnits(v) == [coef |-> Rat(v.coef, ScoreScale), rad |-> Rat(v.rad, ScoreScale * ScoreScale)]

StoredOrDefault(k) ==
    LET ind == simulation.caller.individuals[k]
        stored == IF "phys_params" \in DOMAIN ind THEN ind.phys_params ELSE EmptyDict
        handed == simulation.population_phys_params[k]
        present(key) == key \in DOMAIN stored
    IN /\ handed.body_weight = IF present("body_weight") THEN InUnits(stored.body_weight)
                               ELSE <<70, 1>>
       /\ handed.v_plasma = IF present("v_plasma") THEN InUnits(stored.v_plasma)
                            ELSE <<3, 1>>
       /\ handed.v_liver = IF present("v_liver") THEN InUnits(stored.v_liver)
                           ELSE <<3, 2>>
       /\ handed.q_liver = IF present("q_liver") THEN InUnits(stored.q_liver)
                           ELSE <<90, 1>>
       /\ handed.cl_int = IF present("cl_int") THEN SurdInUnits(stored.cl_int)
                          ELSE [coef |-> <<10, 1>>, rad |-> <<1, 1>>]
       /\ handed.cl_renal = IF present("cl_renal") THEN InUnits(stored.cl_renal)
                            ELSE <<0, 1>>
       /\ handed.activity_score =
             IF present("activity_score") THEN SurdInUnits(stored.activity_score)
             ELSE [coef |-> <<1, 1>>, rad |-> <<1, 1>>]

AsGenerated(k) ==
    LET ind == generators[1].population[k]
        handed == simulation.population_phys_params[k]
    IN /\ handed.body_weight = InUnits(ind.weight)
       /\ handed.body_weight = InUnits(ind.phys_params.body_weight)
       /\ handed.v_plasma = InUnits(ind.phys_params.v_plasma)
       /\ handed.v_liver = InUnits(ind.phys_params.v_liver)
       /\ handed.q_liver = InUnits(ind.phys_params.q_liver)
       /\ handed.cl_int = SurdInUnits(ind.phys_params.cl_int)
       /\ handed.cl_renal = InUnits(ind.phys_params.cl_renal)
       /\ handed.activity_score = SurdInUnits(ind.combined_activity_score)

C30_ParametersHandedUnchanged ==
    Handed =>
        /\ Len(simulation.population_phys_params) = Len(simulation.caller.individuals)
        /\ \A k \in 1..Len(simulation.population_phys_params) : StoredOrDefault(k)
        /\ generators[1].response.state = "ok" =>
              /\ simulation.caller.via = generators[1].via
              /\ simulation.caller.individuals = generators[1].response.individuals
              /\ Len(simulation.population_phys_params) = Len(generators[1].population)
              /\ \A k \in 1..Len(generators[1].population) : AsGenerated(k)

\* a generated cohort handed on by Flask whose first individual weighs no
\* multiple of 100 g and has an irrational activity score
C30_Witness ==
    /\ Handed
    /\ simulation.caller.via = "flask"
    /\ generators[1].response.state = "ok"
    /\ Len(generators[1].population) = 2
    /\ generators[1].population[1].weight % 100 # 0
    /\ round_sqrt(generators[1].population[1].combined_activity_score)
          * round_sqrt(generators[1].population[1].combined_activity_score)
          # generators[1].population[1].combined_activity_score.rad

=============================================================================
